---- MODULE Spec2Model ----
(***************************************************************************)
(* Model of the resilient endpoint monitor of api_updater.py:              *)
(* CircuitBreaker, RateLimiter and the atomic config store of              *)
(* AdvancedAPIEndpointUpdater.                                             *)
(*                                                                         *)
(* Each component has its own specification (SpecCB, SpecRL, SpecStore);   *)
(* a specification leaves the variables of the other components at the     *)
(* value they have after construction.                                     *)
(***************************************************************************)
EXTENDS Integers, Sequences, FiniteSets, TLC

VARIABLES
    clock,              \* time.time() / datetime.now(), in whole seconds
    \* ---- CircuitBreaker ----
    failure_threshold,  \* CircuitBreaker.failure_threshold
    recovery_timeout,   \* CircuitBreaker.recovery_timeout
    success_threshold,  \* CircuitBreaker.success_threshold
    stats,              \* CircuitBreaker.stats (CircuitBreakerStats)
    cb_lock,            \* CircuitBreaker._lock: 0 when free, else the holder
    cb_pc,              \* per thread: the breaker method it is executing
    cbCall,             \* history: the last breaker call that completed
    cbHist,             \* history: streak of failures, epoch since HalfOpen
    \* ---- RateLimiter ----
    max_requests,       \* RateLimiter.max_requests
    time_window,        \* RateLimiter.time_window
    requests,           \* RateLimiter.requests
    rl_lock,            \* RateLimiter._lock: 0 when free, else the holder
    rl_pc,              \* per thread: position inside can_proceed
    rl_now,             \* per thread: the local `now` of can_proceed
    rl_ok,              \* per thread: outcome of the admission test
    rlCall,             \* history: the last can_proceed call that returned
    admitted,           \* history: timestamps of all admitted calls
    rl_calls,           \* history: number of can_proceed calls started
    waitCall,           \* history: what the last wait_time call returned
    \* ---- config store (AdvancedAPIEndpointUpdater) ----
    fs_target,          \* the file at self.config_file
    fs_temp,            \* the NamedTemporaryFile of the running _atomic_write
    fs_orphans,         \* temporary files left behind in the directory
    config_lock,        \* self._config_lock: 0 when free, else the holder
    st_pc,              \* per thread: position in save_config / load_current_config
    config,             \* per thread: the dict passed to save_config
    content,            \* per thread: the local `content` of save_config
    temp_file,          \* per thread: the local `temp_file` of _atomic_write
    fault,              \* per thread: the step of _atomic_write that raised
    saveHist,           \* history: the save_config call in progress or last made
    saveCall,           \* history: the last save_config call that returned
    lastSaved,          \* history: the last save_config that returned True
    loadCall,           \* history: the last load_current_config that returned
    saves,              \* history: number of save_config calls started
    crashed,            \* history: the process was killed once
    \* ---- endpoint tests (AdvancedAPIEndpointUpdater) ----
    endpoint_cache,     \* self.endpoint_cache: url -> entry
    content_hashes,     \* self.content_hashes: url -> hash
    cache_file,         \* the file at self.cache_file
    cache_loaded,       \* main() has called _load_cache
    te_pc,              \* per thread: position inside test_endpoint
    te,                 \* per thread: the locals of its test_endpoint call
    teCall,             \* history: the last test_endpoint call that returned
    tests,              \* history: number of test_endpoint calls started
    server,             \* environment: how the server behind each url answers
    \* ---- payload validation ----
    payload,            \* the decoded payload given to the validator
    verdict,            \* the dict _strict_validate_match_data returned
    \* ---- check_and_update_endpoints ----
    cu,                 \* the locals of the running check_and_update_endpoints
    cuCall,             \* history: the last check_and_update_endpoints call
    runs,               \* history: number of checks started
    \* ---- auto_update_loop ----
    lp,                 \* the locals of auto_update_loop
    lpHist,             \* history: failed cycles in a row, last cycle, end
    \* ---- retries ----
    rw,                 \* the locals of the running _retry_with_backoff
    er                  \* the locals of the running execute_with_retry

cbVars == <<failure_threshold, recovery_timeout, success_threshold, stats,
            cb_lock, cb_pc, cbCall, cbHist>>

rlVars == <<max_requests, time_window, requests, rl_lock, rl_pc, rl_now,
            rl_ok, rlCall, admitted, rl_calls, waitCall>>

stVars == <<fs_target, fs_temp, fs_orphans, config_lock, st_pc, config,
            content, temp_file, fault, saveHist, saveCall, lastSaved,
            loadCall, saves, crashed>>

teVars == <<endpoint_cache, content_hashes, cache_file, cache_loaded, te_pc,
            te, teCall, tests, server>>

valVars == <<payload, verdict>>

cuVars == <<cu, cuCall, runs>>

lpVars == <<lp, lpHist>>

rtVars == <<rw, er>>

vars == <<clock, cbVars, rlVars, stVars, teVars, valVars, cuVars, lpVars, rtVars>>

(***************************************************************************)
(* Bounds of the model.                                                    *)
(***************************************************************************)
NumThreads == 2
MaxTime == 3
MaxThreshold == 2
MaxTimeout == 1
MaxCalls == 4
MaxRequests == 2
MaxWindow == 2
MaxRLCalls == 4
MaxSaves == 1
MaxSaveTime == 1
PieceLen == 16
MaxTests == 2
MaxTestTime == 1
MaxItems == 2
MaxRuns == 1
MaxCandidates == 2
MaxInterval == 1
MaxCycles == 5
MaxRetries == 7

Threads == 1..NumThreads

None == -1              \* Python None for an Optional[datetime]

CLOSED == "closed"
OPEN == "open"
HALF_OPEN == "half_open"

(***************************************************************************)
(* The clock.  Time passes between any two steps of any thread.            *)
(***************************************************************************)
Tick ==
    /\ clock < MaxTime
    /\ clock' = clock + 1

(***************************************************************************)
(* CircuitBreaker                                                          *)
(***************************************************************************)
CircuitBreakerStats(state) ==
    [state |-> state, failure_count |-> 0, success_count |-> 0,
     last_failure_time |-> None, last_success_time |-> None,
     total_requests |-> 0]

CircuitBreaker_init(ft, rt, st) ==
    /\ failure_threshold = ft
    /\ recovery_timeout = rt
    /\ success_threshold = st
    /\ stats = CircuitBreakerStats(CLOSED)
    /\ cb_lock = 0

\* `with self._lock:` entered by thread t on behalf of method m
cb_acquire(t, m) ==
    /\ cb_pc[t] = "idle"
    /\ cb_lock = 0
    /\ cb_lock' = t
    /\ cb_pc' = [cb_pc EXCEPT ![t] = m]

\* what the history records of a completed call
CallRecord(t, m, ret) ==
    [op |-> m, ret |-> ret, at |-> clock,
     state0 |-> stats.state, lft0 |-> stats.last_failure_time,
     streak0 |-> cbHist.streak, start0 |-> cbHist.streakStart]

\* variant: the timeout counts as elapsed as soon as it is reached
RecoveryElapsed_reached(s, now) ==
    /\ s.last_failure_time # None
    /\ now - s.last_failure_time >= recovery_timeout

\* the Open -> HalfOpen test of can_execute
RecoveryElapsed(s, now) ==
    /\ s.last_failure_time # None
    /\ now - s.last_failure_time > recovery_timeout

\* variant: entering HalfOpen also forgives the failures counted so far
can_execute_stats_forgive(s, now) ==
    IF s.state = OPEN /\ RecoveryElapsed(s, now)
    THEN [s EXCEPT !.state = HALF_OPEN, !.success_count = 0,
                   !.failure_count = 0]
    ELSE s

\* variant: entering HalfOpen keeps the successes counted so far
can_execute_stats_keep(s, now) ==
    IF s.state = OPEN /\ RecoveryElapsed(s, now)
    THEN [s EXCEPT !.state = HALF_OPEN]
    ELSE s

\* body of can_execute: the new stats and the value returned
can_execute_stats(s, now) ==
    IF s.state = OPEN /\ RecoveryElapsed(s, now)
    THEN [s EXCEPT !.state = HALF_OPEN, !.success_count = 0]
    ELSE s

can_execute_ret(s, now) ==
    IF s.state = CLOSED THEN TRUE
    ELSE IF s.state = OPEN THEN RecoveryElapsed(s, now)
    ELSE TRUE

\* variant: closing the breaker keeps the failure count
record_success_stats_keep(s, now) ==
    LET s1 == [s EXCEPT !.success_count = @ + 1,
                        !.total_requests = @ + 1,
                        !.last_success_time = now]
    IN IF s1.state = HALF_OPEN /\ s1.success_count >= success_threshold
       THEN [s1 EXCEPT !.state = CLOSED]
       ELSE s1

\* variant: every recorded success forgives the failures counted so far
record_success_stats_forgive(s, now) ==
    LET s1 == [s EXCEPT !.success_count = @ + 1,
                        !.total_requests = @ + 1,
                        !.last_success_time = now,
                        !.failure_count = 0]
    IN IF s1.state = HALF_OPEN /\ s1.success_count >= success_threshold
       THEN [s1 EXCEPT !.state = CLOSED]
       ELSE s1

record_success_stats(s, now) ==
    LET s1 == [s EXCEPT !.success_count = @ + 1,
                        !.total_requests = @ + 1,
                        !.last_success_time = now]
    IN IF s1.state = HALF_OPEN /\ s1.success_count >= success_threshold
       THEN [s1 EXCEPT !.state = CLOSED, !.failure_count = 0]
       ELSE s1

\* variant: the breaker opens only above the threshold
record_failure_stats_above(s, now) ==
    LET s1 == [s EXCEPT !.failure_count = @ + 1,
                        !.total_requests = @ + 1,
                        !.last_failure_time = now]
    IN IF s1.state \in {CLOSED, HALF_OPEN}
          /\ s1.failure_count > failure_threshold
       THEN [s1 EXCEPT !.state = OPEN]
       ELSE s1

\* variant: a failure recorded while Open leaves last_failure_time alone
record_failure_stats_stale(s, now) ==
    LET s1 == [s EXCEPT !.failure_count = @ + 1,
                        !.total_requests = @ + 1,
                        !.last_failure_time =
                            IF s.state = OPEN THEN @ ELSE now]
    IN IF s1.state \in {CLOSED, HALF_OPEN}
          /\ s1.failure_count >= failure_threshold
       THEN [s1 EXCEPT !.state = OPEN]
       ELSE s1

record_failure_stats(s, now) ==
    LET s1 == [s EXCEPT !.failure_count = @ + 1,
                        !.total_requests = @ + 1,
                        !.last_failure_time = now]
    IN IF s1.state \in {CLOSED, HALF_OPEN}
          /\ s1.failure_count >= failure_threshold
       THEN [s1 EXCEPT !.state = OPEN]
       ELSE s1

\* leaving the `with` block releases the lock
cb_release(t) ==
    /\ cb_lock' = 0
    /\ cb_pc' = [cb_pc EXCEPT ![t] = "idle"]

can_execute(t) ==
    /\ cb_pc[t] = "can_execute"
    /\ stats' = can_execute_stats(stats, clock)
    /\ cbCall' = CallRecord(t, "can_execute", can_execute_ret(stats, clock))
    /\ cbHist' = IF stats.state = OPEN /\ stats'.state = HALF_OPEN
                 THEN [streak |-> 0, streakStart |-> stats.state,
                       entered |-> TRUE, succ |-> 0, fail |-> 0]
                 ELSE [cbHist EXCEPT !.streak = 0]
    /\ cb_release(t)

record_success(t) ==
    /\ cb_pc[t] = "record_success"
    /\ stats' = record_success_stats(stats, clock)
    /\ cbCall' = CallRecord(t, "record_success", TRUE)
    /\ cbHist' = [cbHist EXCEPT !.streak = 0, !.succ = @ + 1]
    /\ cb_release(t)

record_failure(t) ==
    /\ cb_pc[t] = "record_failure"
    /\ stats' = record_failure_stats(stats, clock)
    /\ cbCall' = CallRecord(t, "record_failure", TRUE)
    /\ cbHist' = [cbHist EXCEPT
                    !.streak = @ + 1,
                    !.streakStart = IF cbHist.streak = 0 THEN stats.state ELSE @,
                    !.fail = @ + 1]
    /\ cb_release(t)

CBMethods == {"can_execute", "record_success", "record_failure"}

\* a thread calls one of the three methods
CBEnter(t) ==
    /\ stats.total_requests < MaxCalls
    /\ \E m \in CBMethods : cb_acquire(t, m)
    /\ UNCHANGED <<stats, cbCall, cbHist>>

CBParams == <<failure_threshold, recovery_timeout, success_threshold>>

InitCB ==
    /\ \E ft \in 1..MaxThreshold, rt \in 0..MaxTimeout, st \in 1..MaxThreshold :
          CircuitBreaker_init(ft, rt, st)
    /\ cb_pc = [t \in Threads |-> "idle"]
    /\ cbCall = [op |-> "none", ret |-> TRUE, at |-> 0,
                 state0 |-> CLOSED, lft0 |-> None, streak0 |-> 0,
                 start0 |-> CLOSED]
    /\ cbHist = [streak |-> 0, streakStart |-> CLOSED,
                 entered |-> FALSE, succ |-> 0, fail |-> 0]

\* the breaker as AdvancedAPIEndpointUpdater.__init__ constructs it
UpdaterCB ==
    /\ CircuitBreaker_init(5, 300, 3)
    /\ cb_pc = [t \in Threads |-> "idle"]
    /\ cbCall = [op |-> "none", ret |-> TRUE, at |-> 0,
                 state0 |-> CLOSED, lft0 |-> None, streak0 |-> 0,
                 start0 |-> CLOSED]
    /\ cbHist = [streak |-> 0, streakStart |-> CLOSED,
                 entered |-> FALSE, succ |-> 0, fail |-> 0]

\* the updater's breaker with the thresholds 5 and 3 of __init__ scaled down
\* to one failure and one success, and the 300 seconds to the bound
ScaledCB ==
    /\ CircuitBreaker_init(1, MaxTimeout, 1)
    /\ cb_pc = [t \in Threads |-> "idle"]
    /\ cbCall = [op |-> "none", ret |-> TRUE, at |-> 0,
                 state0 |-> CLOSED, lft0 |-> None, streak0 |-> 0,
                 start0 |-> CLOSED]
    /\ cbHist = [streak |-> 0, streakStart |-> CLOSED,
                 entered |-> FALSE, succ |-> 0, fail |-> 0]

(***************************************************************************)
(* RateLimiter                                                             *)
(***************************************************************************)
RateLimiter_init(mr, tw) ==
    /\ max_requests = mr
    /\ time_window = tw
    /\ requests = <<>>
    /\ rl_lock = 0

\* variant: can_proceed entered without waiting for the lock
rl_acquire_nolock(t) ==
    /\ rl_pc[t] = "idle"
    /\ rl_lock' = t
    /\ rl_pc' = [rl_pc EXCEPT ![t] = "prune"]

\* `with self._lock:` of can_proceed, entered by thread t
rl_acquire(t) ==
    /\ rl_pc[t] = "idle"
    /\ rl_lock = 0
    /\ rl_lock' = t
    /\ rl_pc' = [rl_pc EXCEPT ![t] = "prune"]

\* [req_time for req_time in self.requests if now - req_time < self.time_window]
Unexpired(reqs, now) ==
    SelectSeq(reqs, LAMBDA req_time : now - req_time < time_window)

\* now = time.time(); self.requests = [...]
can_proceed_prune(t) ==
    /\ rl_pc[t] = "prune"
    /\ rl_now' = [rl_now EXCEPT ![t] = clock]
    /\ requests' = Unexpired(requests, clock)
    /\ rl_pc' = [rl_pc EXCEPT ![t] = "check"]
    /\ UNCHANGED <<rl_lock, rl_ok, rlCall, admitted, rl_calls, waitCall>>

\* len(self.requests) < self.max_requests
HasRoom(reqs) == Len(reqs) < max_requests

can_proceed_check(t) ==
    /\ rl_pc[t] = "check"
    /\ rl_ok' = [rl_ok EXCEPT ![t] = HasRoom(requests)]
    /\ rl_pc' = [rl_pc EXCEPT ![t] = "return"]
    /\ UNCHANGED <<requests, rl_lock, rl_now, rlCall, admitted, rl_calls, waitCall>>

\* variant: the timestamp is recorded on both branches
Recorded_always(reqs, now, ok) == Append(reqs, now)

\* the list after the branch on the admission test
Recorded(reqs, now, ok) == IF ok THEN Append(reqs, now) ELSE reqs

\* self.requests.append(now); return True / return False; lock released
can_proceed_return(t) ==
    /\ rl_pc[t] = "return"
    /\ requests' = Recorded(requests, rl_now[t], rl_ok[t])
    /\ admitted' = IF rl_ok[t] THEN Append(admitted, rl_now[t]) ELSE admitted
    /\ rlCall' = [rlCall EXCEPT !.op = "can_proceed",
                                !.ret = rl_ok[t], !.now = rl_now[t],
                                !.after = requests']
    /\ rl_lock' = 0
    /\ rl_pc' = [rl_pc EXCEPT ![t] = "idle"]
    /\ UNCHANGED <<rl_now, rl_ok, rl_calls, waitCall>>

\* a thread calls can_proceed
RLEnter(t) ==
    /\ rl_calls < MaxRLCalls
    /\ rl_acquire(t)
    /\ rl_calls' = rl_calls + 1
    /\ rlCall' = [rlCall EXCEPT !.before = requests]
    /\ UNCHANGED <<requests, rl_now, rl_ok, admitted, waitCall>>

RLParams == <<max_requests, time_window>>

RLHistInit ==
    /\ rl_pc = [t \in Threads |-> "idle"]
    /\ rl_now = [t \in Threads |-> 0]
    /\ rl_ok = [t \in Threads |-> FALSE]
    /\ rlCall = [op |-> "none", ret |-> TRUE, now |-> 0,
                 before |-> <<>>, after |-> <<>>]
    /\ admitted = <<>>
    /\ rl_calls = 0
    /\ waitCall = [made |-> FALSE, ret |-> 0, odd |-> FALSE]

InitRL ==
    /\ \E mr \in 1..MaxRequests, tw \in 1..MaxWindow : RateLimiter_init(mr, tw)
    /\ RLHistInit

\* the limiter as AdvancedAPIEndpointUpdater.__init__ constructs it
UpdaterRL ==
    /\ RateLimiter_init(20, 60)
    /\ RLHistInit

\* the updater's limiter with the 20 requests per 60 seconds of __init__
\* scaled down to one request per window of the bound
ScaledRL ==
    /\ RateLimiter_init(1, MaxWindow)
    /\ RLHistInit

(***************************************************************************)
(* JSON documents.  A decoded value is null, a string or a list of         *)
(* strings; a dict is a function from keys to decoded values.  A file      *)
(* holds the token sequence of the text json.dumps produces (white space   *)
(* left out).                                                              *)
(***************************************************************************)
JNull == [t |-> "null", s |-> "", l |-> <<>>]
JStr(x) == [t |-> "str", s |-> x, l |-> <<>>]
JList(xs) == [t |-> "list", s |-> "", l |-> xs]

P(x) == [q |-> FALSE, s |-> x]      \* punctuation or literal
Q(x) == [q |-> TRUE, s |-> x]       \* quoted string

\* key order of the config dict (insertion order of the default config)
KeyOrder == <<"endpoints", "last_updated", "discovery_method", "notes",
              "version", "features">>

\* variant: the items of a list are written last to first
RECURSIVE dumps_items_reversed(_)
dumps_items_reversed(xs) ==
    IF xs = <<>> THEN <<>>
    ELSE IF Len(xs) = 1 THEN <<Q(xs[1])>>
    ELSE <<Q(xs[Len(xs)]), P(",")>>
         \o dumps_items_reversed(SubSeq(xs, 1, Len(xs) - 1))

RECURSIVE dumps_items(_)
dumps_items(xs) ==
    IF xs = <<>> THEN <<>>
    ELSE IF Len(xs) = 1 THEN <<Q(xs[1])>>
    ELSE <<Q(xs[1]), P(",")>> \o dumps_items(Tail(xs))

dumps_value(v) ==
    CASE v.t = "null" -> <<P("null")>>
      [] v.t = "str" -> <<Q(v.s)>>
      [] v.t = "list" -> <<P("[")>> \o dumps_items(v.l) \o <<P("]")>>

RECURSIVE dumps_pairs(_, _)
dumps_pairs(d, ks) ==
    IF ks = <<>> THEN <<>>
    ELSE <<Q(ks[1]), P(":")>> \o dumps_value(d[ks[1]])
         \o (IF Len(ks) > 1 THEN <<P(",")>> ELSE <<>>)
         \o dumps_pairs(d, Tail(ks))

\* json.dumps(config, ensure_ascii=False, indent=2)
dumps(d) ==
    <<P("{")>>
    \o dumps_pairs(d, SelectSeq(KeyOrder, LAMBDA k : k \in DOMAIN d))
    \o <<P("}")>>

ParseFail == [ok |-> FALSE, val |-> JNull, next |-> 0]
ParseOk(v, n) == [ok |-> TRUE, val |-> v, next |-> n]

RECURSIVE loads_items(_, _, _)
loads_items(toks, i, acc) ==
    IF i > Len(toks) THEN ParseFail
    ELSE IF acc = <<>> /\ toks[i] = P("]") THEN ParseOk(JList(acc), i + 1)
    ELSE IF ~toks[i].q \/ i + 1 > Len(toks) THEN ParseFail
    ELSE IF toks[i + 1] = P("]")
         THEN ParseOk(JList(Append(acc, toks[i].s)), i + 2)
    ELSE IF toks[i + 1] = P(",")
         THEN loads_items(toks, i + 2, Append(acc, toks[i].s))
    ELSE ParseFail

loads_value(toks, i) ==
    IF i > Len(toks) THEN ParseFail
    ELSE IF toks[i] = P("null") THEN ParseOk(JNull, i + 1)
    ELSE IF toks[i].q THEN ParseOk(JStr(toks[i].s), i + 1)
    ELSE IF toks[i] = P("[") THEN loads_items(toks, i + 1, <<>>)
    ELSE ParseFail

RECURSIVE loads_pairs(_, _, _, _)
loads_pairs(toks, i, acc, first) ==
    IF i > Len(toks) THEN ParseFail
    ELSE IF first /\ toks[i] = P("}") THEN ParseOk(acc, i + 1)
    ELSE IF ~toks[i].q \/ i + 1 > Len(toks) THEN ParseFail
    ELSE IF toks[i + 1] # P(":") THEN ParseFail
    ELSE LET r == loads_value(toks, i + 2)
             acc2 == (toks[i].s :> r.val) @@ acc
         IN IF ~r.ok \/ r.next > Len(toks) THEN ParseFail
            ELSE IF toks[r.next] = P("}") THEN ParseOk(acc2, r.next + 1)
            ELSE IF toks[r.next] = P(",")
                 THEN loads_pairs(toks, r.next + 1, acc2, FALSE)
            ELSE ParseFail

\* json.load(f): the decoded document, or not ok on a JSONDecodeError
loads(toks) ==
    LET r == IF Len(toks) > 0 /\ toks[1] = P("{")
             THEN loads_pairs(toks, 2, <<>>, TRUE)
             ELSE loads_value(toks, 1)
    IN IF r.ok /\ r.next = Len(toks) + 1 THEN r ELSE ParseFail

(***************************************************************************)
(* The config store: load_current_config, _atomic_write, save_config       *)
(***************************************************************************)
NoFile == [exists |-> FALSE, data |-> <<>>]
File(toks) == [exists |-> TRUE, data |-> toks]

\* datetime.now().isoformat()
isoformat(now) == "T" \o ToString(now)

\* the default config of load_current_config
DefaultConfig ==
    [endpoints |-> JList(<<>>),
     last_updated |-> JNull,
     discovery_method |-> JStr("manual"),
     notes |-> JStr("default"),
     version |-> JStr("2.0"),
     features |-> JList(<<"side_probe", "conditional_get">>)]

\* the well-formed configs callers pass to save_config: one never saved
\* before, one as an earlier save_config at time 0 stamped it
Configs ==
    {[DefaultConfig EXCEPT !.endpoints = JList(e),
                           !.last_updated = uv[1],
                           !.discovery_method = JStr("auto"),
                           !.version = JStr(uv[2])] :
        e \in {<<"u1", "u2">>, <<"u2", "u1">>},
        uv \in {<<JNull, "1.0">>, <<JStr(isoformat(0)), "2.0">>}}

\* `with self._config_lock:` entered by thread t
config_acquire(t, pc) ==
    /\ st_pc[t] = "idle"
    /\ config_lock = 0
    /\ config_lock' = t
    /\ st_pc' = [st_pc EXCEPT ![t] = pc]

\* a thread calls save_config(cfg)
save_config_enter(t) ==
    /\ saves < MaxSaves
    /\ config_acquire(t, "stamp")
    /\ \E cfg \in Configs :
          /\ config' = [config EXCEPT ![t] = cfg]
          /\ saveHist' = [active |-> TRUE, arg |-> cfg, prev |-> fs_target,
                          doc |-> NoFile, at |-> 0, killed |-> "no"]
    /\ saves' = saves + 1
    /\ temp_file' = [temp_file EXCEPT ![t] = FALSE]
    /\ fault' = [fault EXCEPT ![t] = "none"]
    /\ UNCHANGED <<fs_target, fs_temp, fs_orphans, content, saveCall,
                   lastSaved, loadCall, crashed>>

\* config["last_updated"] = ...; config["version"] = "2.0"
Stamped(cfg, now) ==
    [cfg EXCEPT !.last_updated = JStr(isoformat(now)), !.version = JStr("2.0")]

\* the first three statements of the try block of save_config
save_config_stamp(t) ==
    /\ st_pc[t] = "stamp"
    /\ config' = [config EXCEPT ![t] = Stamped(config[t], clock)]
    /\ content' = [content EXCEPT ![t] = dumps(config'[t])]
    /\ saveHist' = [saveHist EXCEPT !.doc = File(content'[t]), !.at = clock]
    /\ st_pc' = [st_pc EXCEPT ![t] = "create"]
    /\ UNCHANGED <<fs_target, fs_temp, fs_orphans, config_lock, temp_file,
                   fault, saveCall, lastSaved, loadCall, saves, crashed>>

\* tempfile.NamedTemporaryFile(..., delete=False): creates an empty file,
\* or raises
atomic_write_create(t) ==
    /\ st_pc[t] = "create"
    /\ \/ /\ fs_temp' = File(<<>>)
          /\ temp_file' = [temp_file EXCEPT ![t] = TRUE]
          /\ st_pc' = [st_pc EXCEPT ![t] = "write"]
          /\ UNCHANGED fault
       \/ /\ fault' = [fault EXCEPT ![t] = "create"]
          /\ st_pc' = [st_pc EXCEPT ![t] = "except"]
          /\ UNCHANGED <<fs_temp, temp_file>>
    /\ UNCHANGED <<fs_target, fs_orphans, config_lock, config, content,
                   saveHist, saveCall, lastSaved, loadCall, saves, crashed>>

\* variant: the content is written into the config file itself
Written_in_place(target, toks, n) ==
    [target |-> File(SubSeq(toks, 1, n)), temp |-> File(SubSeq(toks, 1, n))]

\* the files after n tokens of the content have reached the temporary file
Written(target, toks, n) ==
    [target |-> target, temp |-> File(SubSeq(toks, 1, n))]

\* temp_file.write(content); temp_file.flush(); close: the content reaches
\* the file in pieces of at most PieceLen tokens; a step adds the next
\* piece or raises
atomic_write_write(t) ==
    /\ st_pc[t] = "write"
    /\ \/ LET n == IF Len(fs_temp.data) + PieceLen < Len(content[t])
                    THEN Len(fs_temp.data) + PieceLen
                    ELSE Len(content[t])
              w == Written(fs_target, content[t], n)
          IN /\ fs_target' = w.target
             /\ fs_temp' = w.temp
             /\ st_pc' = [st_pc EXCEPT ![t] =
                            IF n = Len(content[t]) THEN "replace" ELSE "write"]
             /\ UNCHANGED fault
       \/ /\ fault' = [fault EXCEPT ![t] = "write"]
          /\ st_pc' = [st_pc EXCEPT ![t] = "except"]
          /\ UNCHANGED <<fs_target, fs_temp>>
    /\ UNCHANGED <<fs_orphans, config_lock, config, content, temp_file,
                   saveHist, saveCall, lastSaved, loadCall, saves, crashed>>

\* temp_path.replace(file_path): the rename, or raises
atomic_write_replace(t) ==
    /\ st_pc[t] = "replace"
    /\ \/ /\ fs_target' = fs_temp
          /\ fs_temp' = NoFile
          /\ lastSaved' = [lastSaved EXCEPT !.valid = FALSE]
          /\ st_pc' = [st_pc EXCEPT ![t] = "yield"]
          /\ UNCHANGED fault
       \/ /\ fault' = [fault EXCEPT ![t] = "replace"]
          /\ st_pc' = [st_pc EXCEPT ![t] = "except"]
          /\ UNCHANGED <<fs_target, fs_temp, lastSaved>>
    /\ UNCHANGED <<fs_orphans, config_lock, config, content, temp_file,
                   saveHist, saveCall, loadCall, saves, crashed>>

\* what save_config leaves behind when it returns ret
SaveRecord(t, ret, temp) ==
    [ret |-> ret, fault |-> fault[t], prev |-> saveHist.prev,
     target |-> fs_target, temp |-> temp]

\* leaving `with self._config_lock:`
config_release(t) ==
    /\ config_lock' = 0
    /\ st_pc' = [st_pc EXCEPT ![t] = "idle"]
    /\ config' = [config EXCEPT ![t] = DefaultConfig]
    /\ content' = [content EXCEPT ![t] = <<>>]

\* yield; pass; logger.info; return True
save_config_return(t) ==
    /\ st_pc[t] = "yield"
    /\ saveCall' = SaveRecord(t, TRUE, fs_temp)
    /\ lastSaved' = [valid |-> TRUE, arg |-> saveHist.arg, obj |-> config[t],
                     at |-> saveHist.at]
    /\ config_release(t)
    /\ UNCHANGED <<fs_target, fs_temp, fs_orphans, temp_file, fault,
                   saveHist, loadCall, saves, crashed>>

\* variant: the except clause does not unlink
Cleaned_never(temp, created) == temp

\* the temporary file after the cleanup of the except clause
Cleaned(temp, created) == IF created /\ temp.exists THEN NoFile ELSE temp

\* except clause of _atomic_write (unlink, raise e), then the except
\* clause of save_config: return False
save_config_except(t) ==
    /\ st_pc[t] = "except"
    /\ fs_temp' = Cleaned(fs_temp, temp_file[t])
    /\ saveCall' = SaveRecord(t, FALSE, fs_temp')
    /\ config_release(t)
    /\ UNCHANGED <<fs_target, fs_orphans, temp_file, fault, saveHist,
                   lastSaved, loadCall, saves, crashed>>

\* a thread calls load_current_config()
load_current_config_enter(t) ==
    /\ config_acquire(t, "load")
    /\ UNCHANGED <<fs_target, fs_temp, fs_orphans, config, content,
                   temp_file, fault, saveHist, saveCall, lastSaved,
                   loadCall, saves, crashed>>

\* the value load_current_config returns for a given file
Loaded(file) ==
    IF file.exists /\ loads(file.data).ok
    THEN loads(file.data).val
    ELSE DefaultConfig

\* whether an exception leaves load_current_config: open() and json.load()
\* run inside try, and `except Exception` logs whatever they raise
load_escapes_uncaught(file) ==
    file.exists /\ ~loads(file.data).ok

load_escapes(file) ==
    LET decode_error == file.exists /\ ~loads(file.data).ok
        caught == TRUE
    IN  decode_error /\ ~caught

\* body of load_current_config
load_current_config(t) ==
    /\ st_pc[t] = "load"
    /\ loadCall' = [ret |-> Loaded(fs_target), saved |-> lastSaved,
                    raised |-> load_escapes(fs_target),
                    file |-> fs_target, made |-> TRUE]
    /\ config_lock' = 0
    /\ st_pc' = [st_pc EXCEPT ![t] = "idle"]
    /\ UNCHANGED <<fs_target, fs_temp, fs_orphans, config, content,
                   temp_file, fault, saveHist, saveCall, lastSaved,
                   saves, crashed>>

\* the process is killed inside save_config (followed once); the files
\* stay as they are
Crash ==
    /\ ~crashed
    /\ \E t \in Threads : st_pc[t] \notin {"idle", "load"}
    /\ crashed' = TRUE
    /\ saveHist' = [saveHist EXCEPT !.killed = st_pc[config_lock]]
    /\ st_pc' = [t \in Threads |-> "dead"]
    /\ UNCHANGED <<fs_target, fs_temp, fs_orphans, config_lock, config,
                   content, temp_file, fault, saveCall, lastSaved,
                   loadCall, saves>>

\* the program is started again: AdvancedAPIEndpointUpdater.__init__
Restart ==
    /\ \A t \in Threads : st_pc[t] = "dead"
    /\ st_pc' = [t \in Threads |-> "idle"]
    /\ config_lock' = 0
    /\ config' = [t \in Threads |-> DefaultConfig]
    /\ content' = [t \in Threads |-> <<>>]
    /\ temp_file' = [t \in Threads |-> FALSE]
    /\ fault' = [t \in Threads |-> "none"]
    /\ fs_orphans' = IF fs_temp.exists THEN fs_orphans + 1 ELSE fs_orphans
    /\ fs_temp' = NoFile
    /\ UNCHANGED <<fs_target, saveHist, saveCall, lastSaved, loadCall,
                   saves, crashed>>

\* the updater's own state after AdvancedAPIEndpointUpdater.__init__
StoreInit ==
    /\ fs_temp = NoFile
    /\ fs_orphans = 0
    /\ config_lock = 0
    /\ st_pc = [t \in Threads |-> "idle"]
    /\ config = [t \in Threads |-> DefaultConfig]
    /\ content = [t \in Threads |-> <<>>]
    /\ temp_file = [t \in Threads |-> FALSE]
    /\ fault = [t \in Threads |-> "none"]
    /\ saveHist = [active |-> FALSE, arg |-> DefaultConfig, prev |-> NoFile,
                   doc |-> NoFile, at |-> 0, killed |-> "no"]
    /\ saveCall = [ret |-> TRUE, fault |-> "none", prev |-> NoFile,
                   target |-> NoFile, temp |-> NoFile]
    /\ lastSaved = [valid |-> FALSE, arg |-> DefaultConfig,
                    obj |-> DefaultConfig, at |-> 0]
    /\ loadCall = [ret |-> DefaultConfig,
                   saved |-> [valid |-> FALSE, arg |-> DefaultConfig,
                              obj |-> DefaultConfig, at |-> 0],
                   raised |-> FALSE, file |-> NoFile, made |-> FALSE]
    /\ saves = 0
    /\ crashed = FALSE

\* the config file found at start: none, one written by an earlier run, or
\* one that is not a JSON document
InitStore ==
    /\ fs_target \in {NoFile,
                      File(dumps([DefaultConfig EXCEPT
                                    !.endpoints = JList(<<"u1">>),
                                    !.last_updated = JStr("T0")])),
                      File(<<P("{"), Q("endpoints")>>)}
    /\ StoreInit

\* no config file yet
UpdaterStore ==
    /\ fs_target = NoFile
    /\ StoreInit

(***************************************************************************)
(* _strict_validate_match_data                                             *)
(*                                                                         *)
(* JSON values of a payload.  An odds value is absent, a number (in tenths,*)
(* 21 is 2.1) or a string; `ok` says whether float() accepts it and `v` is *)
(* the number it yields.  A start time is absent, a number of milliseconds *)
(* (kept in clock units after the division by 1000) or something else.    *)
(***************************************************************************)
NoOdd == [t |-> "absent", v |-> 0, ok |-> FALSE]
Num(v) == [t |-> "num", v |-> v, ok |-> TRUE]
NumStr(v) == [t |-> "str", v |-> v, ok |-> TRUE]
Junk == [t |-> "str", v |-> 0, ok |-> FALSE]

\* bool(x) of Python for an odds or start-time value
truthy(x) == (x.t = "num" /\ x.v # 0) \/ x.t = "str"

\* `a or b` of Python
py_or(a, b) == IF truthy(a) THEN a ELSE b

\* str.lower() on the words of a sport label
lower(w) ==
    CASE w = "Soccer" -> "soccer"
      [] w = "SOCCER" -> "soccer"
      [] w = "Football" -> "football"
      [] w = "FOOTBALL" -> "football"
      [] OTHER -> w

\* 'soccer' in sport_info or 'football' in sport_info, on the lowered label
is_soccer(words) ==
    \E i \in 1..Len(words) : lower(words[i]) \in {"soccer", "football"}

NoOdds == [t |-> "absent", k1 |-> NoOdd, home |-> NoOdd, kX |-> NoOdd,
           draw |-> NoOdd, k2 |-> NoOdd, away |-> NoOdd]
Odds1X2(a, b, c) == [t |-> "dict", k1 |-> a, home |-> NoOdd, kX |-> b,
                     draw |-> NoOdd, k2 |-> c, away |-> NoOdd]
OddsHDA(a, b, c) == [t |-> "dict", k1 |-> NoOdd, home |-> a, kX |-> NoOdd,
                     draw |-> b, k2 |-> NoOdd, away |-> c]
OddsOther == [NoOdds EXCEPT !.t = "other"]

\* an item of the payload: a dict with the keys the validator reads, or a
\* value that is not a dict
Item(sport, start, odds, home, away) ==
    [isdict |-> TRUE, sportInfo |-> sport, startTime |-> start,
     odds |-> odds, homeTeam |-> home, awayTeam |-> away]
Label(words) == [t |-> "str", w |-> words]
NoLabel == [t |-> "absent", w |-> <<>>]
NumLabel == [t |-> "other", w |-> <<>>]
NonDict ==
    [isdict |-> FALSE, sportInfo |-> NoLabel, startTime |-> NoOdd,
     odds |-> NoOdds, homeTeam |-> "", awayTeam |-> ""]

\* the running totals of the loop over the items
Tally(errors, warnings, valid, total, raised) ==
    [errors |-> errors, warnings |-> warnings, valid_matches |-> valid,
     total_matches |-> total, raised |-> raised]

\* variant: an item of another sport is skipped with a warning
check_item_skip_warned(item, now) ==
    LET odds_1 == py_or(item.odds.k1, item.odds.home)
        odds_x == py_or(item.odds.kX, item.odds.draw)
        odds_2 == py_or(item.odds.k2, item.odds.away)
    IN  IF ~item.isdict THEN <<"warning", "not a dict">>
        ELSE IF item.sportInfo.t = "other" THEN <<"raise", "exception">>
        ELSE IF ~is_soccer(item.sportInfo.w) THEN <<"warning", "not football">>
        ELSE IF truthy(item.startTime) /\ item.startTime.t # "num"
             THEN <<"error", "invalid match time">>
        ELSE IF truthy(item.startTime) /\ item.startTime.v < now
             THEN <<"warning", "historical match">>
        ELSE IF item.odds.t = "other" THEN <<"warning", "odds not a dict">>
        ELSE IF ~(truthy(odds_1) /\ truthy(odds_x) /\ truthy(odds_2))
             THEN <<"warning", "odds incomplete">>
        ELSE IF ~(odds_1.ok /\ odds_x.ok /\ odds_2.ok)
             THEN <<"error", "odds format">>
        ELSE IF ~(odds_1.v > 10 /\ odds_x.v > 10 /\ odds_2.v > 10)
             THEN <<"warning", "odds abnormal">>
        ELSE IF item.homeTeam = "" \/ item.awayTeam = ""
             THEN <<"warning", "missing team">>
        ELSE <<"valid", "">>

\* variant: odds of exactly 1.0 pass the plausibility test
check_item_accept_low(item, now) ==
    LET odds_1 == py_or(item.odds.k1, item.odds.home)
        odds_x == py_or(item.odds.kX, item.odds.draw)
        odds_2 == py_or(item.odds.k2, item.odds.away)
    IN  IF ~item.isdict THEN <<"warning", "not a dict">>
        ELSE IF item.sportInfo.t = "other" THEN <<"raise", "exception">>
        ELSE IF ~is_soccer(item.sportInfo.w) THEN <<"skip", "">>
        ELSE IF truthy(item.startTime) /\ item.startTime.t # "num"
             THEN <<"error", "invalid match time">>
        ELSE IF truthy(item.startTime) /\ item.startTime.v < now
             THEN <<"warning", "historical match">>
        ELSE IF item.odds.t = "other" THEN <<"warning", "odds not a dict">>
        ELSE IF ~(truthy(odds_1) /\ truthy(odds_x) /\ truthy(odds_2))
             THEN <<"warning", "odds incomplete">>
        ELSE IF ~(odds_1.ok /\ odds_x.ok /\ odds_2.ok)
             THEN <<"error", "odds format">>
        ELSE IF ~(odds_1.v >= 10 /\ odds_x.v >= 10 /\ odds_2.v >= 10)
             THEN <<"warning", "odds abnormal">>
        ELSE IF item.homeTeam = "" \/ item.awayTeam = ""
             THEN <<"warning", "missing team">>
        ELSE <<"valid", "">>

\* what one pass of the loop body does with an item: "valid", "skip" (the
\* silent continue), "warning", "error" or "raise", and the message
check_item(item, now) ==
    LET odds_1 == py_or(item.odds.k1, item.odds.home)
        odds_x == py_or(item.odds.kX, item.odds.draw)
        odds_2 == py_or(item.odds.k2, item.odds.away)
    IN  IF ~item.isdict THEN <<"warning", "not a dict">>
        ELSE IF item.sportInfo.t = "other" THEN <<"raise", "exception">>
        ELSE IF ~is_soccer(item.sportInfo.w) THEN <<"skip", "">>
        ELSE IF truthy(item.startTime) /\ item.startTime.t # "num"
             THEN <<"error", "invalid match time">>
        ELSE IF truthy(item.startTime) /\ item.startTime.v < now
             THEN <<"warning", "historical match">>
        ELSE IF item.odds.t = "other" THEN <<"warning", "odds not a dict">>
        ELSE IF ~(truthy(odds_1) /\ truthy(odds_x) /\ truthy(odds_2))
             THEN <<"warning", "odds incomplete">>
        ELSE IF ~(odds_1.ok /\ odds_x.ok /\ odds_2.ok)
             THEN <<"error", "odds format">>
        ELSE IF ~(odds_1.v > 10 /\ odds_x.v > 10 /\ odds_2.v > 10)
             THEN <<"warning", "odds abnormal">>
        ELSE IF item.homeTeam = "" \/ item.awayTeam = ""
             THEN <<"warning", "missing team">>
        ELSE <<"valid", "">>

\* the loop `for item in items`, from item i on; an exception ends it
RECURSIVE validate_loop(_, _, _, _)
validate_loop(items, i, now, acc) ==
    IF i > Len(items) THEN acc
    ELSE LET r == check_item(items[i], now)
             counted == [acc EXCEPT !.total_matches = @ + 1]
         IN  CASE r[1] = "raise" ->
                    [counted EXCEPT !.raised = TRUE]
               [] r[1] = "valid" ->
                    validate_loop(items, i + 1, now,
                        [counted EXCEPT !.valid_matches = @ + 1])
               [] r[1] = "skip" ->
                    validate_loop(items, i + 1, now, counted)
               [] r[1] = "warning" ->
                    validate_loop(items, i + 1, now,
                        [counted EXCEPT !.warnings = Append(@, r[2])])
               [] r[1] = "error" ->
                    validate_loop(items, i + 1, now,
                        [counted EXCEPT !.errors = Append(@, r[2])])

\* the value under an 'items' key, and the value under a 'data' key
NoItems == [t |-> "absent", l |-> <<>>]
ItemList(l) == [t |-> "list", l |-> l]
NullItems == [t |-> "null", l |-> <<>>]
NumItems == [t |-> "num", l |-> <<>>]
NoSection == [t |-> "absent", l |-> <<>>, items |-> NoItems]
DictSection(items) == [t |-> "dict", l |-> <<>>, items |-> items]
ListSection(l) == [t |-> "list", l |-> l, items |-> NoItems]
NullSection == [t |-> "null", l |-> <<>>, items |-> NoItems]
ScalarSection == [t |-> "scalar", l |-> <<>>, items |-> NoItems]

\* a decoded payload: a list, a dict (its 'data' key, its 'items' key and
\* the dict itself read as one item) or any other JSON value
ListData(l) ==
    [t |-> "list", l |-> l, data |-> NoSection, items |-> NoItems,
     self |-> NonDict]
DictData(section, items, self) ==
    [t |-> "dict", l |-> <<>>, data |-> section, items |-> items,
     self |-> self]
OtherData ==
    [t |-> "other", l |-> <<>>, data |-> NoSection, items |-> NoItems,
     self |-> NonDict]

\* the value of `items` before the loop: a sequence, or a number that the
\* for statement cannot iterate
Iterable(l) == [kind |-> "seq", items |-> l]
from_items(iv) ==
    CASE iv.t = "list" -> Iterable(iv.l)
      [] iv.t = "num" -> [kind |-> "noniterable", items |-> <<>>]
      [] OTHER -> Iterable(<<>>)

\* variant: only {"data": {"items": ...}} counts as a 'data' wrapper
normalise_data_first(data) ==
    IF data.t = "dict"
    THEN IF data.data.t = "dict" /\ data.data.items.t # "absent"
         THEN from_items(data.data.items)
         ELSE IF data.items.t # "absent" THEN from_items(data.items)
         ELSE Iterable(<<data.self>>)
    ELSE IF data.t = "list" THEN Iterable(data.l)
    ELSE [kind |-> "unsupported", items |-> <<>>]

\* the branches on the shape of data (lines 540-558)
normalise(data) ==
    IF data.t = "dict"
    THEN IF data.data.t # "absent"
         THEN CASE data.data.t = "dict" -> from_items(data.data.items)
                [] data.data.t = "list" -> Iterable(data.data.l)
                [] data.data.t = "scalar" -> Iterable(<<NonDict>>)
                [] OTHER -> Iterable(<<>>)
         ELSE IF data.items.t # "absent" THEN from_items(data.items)
         ELSE Iterable(<<data.self>>)
    ELSE IF data.t = "list" THEN Iterable(data.l)
    ELSE [kind |-> "unsupported", items |-> <<>>]

Verdict(is_valid, errors, warnings, valid, total) ==
    [is_valid |-> is_valid, errors |-> errors, warnings |-> warnings,
     valid_matches |-> valid, total_matches |-> total]

\* variant: hard errors do not make the verdict invalid
strict_verdict_lenient(acc) ==
    IF acc.raised
    THEN Verdict(FALSE, Append(acc.errors, "validation exception"),
                 acc.warnings, 0, acc.total_matches)
    ELSE Verdict(acc.valid_matches > 0,
                 IF acc.valid_matches = 0
                 THEN Append(acc.errors, "no valid football match")
                 ELSE acc.errors,
                 acc.warnings, acc.valid_matches, acc.total_matches)

\* variant: no summary entry is added when no match is valid
strict_verdict_silent(acc) ==
    IF acc.raised
    THEN Verdict(FALSE, Append(acc.errors, "validation exception"),
                 acc.warnings, 0, acc.total_matches)
    ELSE Verdict(acc.valid_matches > 0 /\ Len(acc.errors) = 0,
                 acc.errors,
                 acc.warnings, acc.valid_matches, acc.total_matches)

\* the dict returned after the loop, or by the except clause when the loop
\* raised
strict_verdict(acc) ==
    IF acc.raised
    THEN Verdict(FALSE, Append(acc.errors, "validation exception"),
                 acc.warnings, 0, acc.total_matches)
    ELSE Verdict(acc.valid_matches > 0 /\ Len(acc.errors) = 0,
                 IF acc.valid_matches = 0
                 THEN Append(acc.errors, "no valid football match")
                 ELSE acc.errors,
                 acc.warnings, acc.valid_matches, acc.total_matches)

\* _strict_validate_match_data(data) called at time now
strict_validate_match_data(data, now) ==
    LET n == normalise(data)
    IN  CASE n.kind = "unsupported" ->
               Verdict(FALSE, <<"unsupported format">>, <<>>, 0, 0)
          [] n.kind = "noniterable" ->
               strict_verdict(Tally(<<>>, <<>>, 0, 0, TRUE))
          [] n.kind = "seq" /\ n.items = <<>> ->
               Verdict(FALSE, <<"no items">>, <<>>, 0, 0)
          [] OTHER ->
               strict_verdict(validate_loop(n.items, 1, now,
                                            Tally(<<>>, <<>>, 0, 0, FALSE)))

(***************************************************************************)
(* test_endpoint, _side_probe, _conditional_get and _load_cache            *)
(*                                                                         *)
(* The server is the environment: every HEAD and every GET is answered by  *)
(* one of a few responses or fails with a transport error.  hashlib.md5 is *)
(* modelled as an injective function of the text it is given.  Python None *)
(* is the string "None", as an f-string prints it.                         *)
(***************************************************************************)
Urls == {"u1", "u2"}

md5(text) == "md5(" \o text \o ")"

\* what the server answers to a HEAD request
HeadResponse(etag, last_modified, content_length, status_code) ==
    [etag |-> etag, last_modified |-> last_modified,
     content_length |-> content_length, status_code |-> status_code]

HeadResponses ==
    {HeadResponse("e1", "None", "10", 200),
     HeadResponse("None", "None", "None", 500)}

\* f"{etag}:{last_modified}:{content_length}:{response.status_code}"
version_data(r) ==
    r.etag \o ":" \o r.last_modified \o ":" \o r.content_length
           \o ":" \o ToString(r.status_code)

\* items and response bodies the server sends
ValidItem ==
    Item(Label(<<"Soccer">>), NoOdd,
         Odds1X2(NumStr(21), NumStr(33), NumStr(35)), "home", "away")
BadOddsItem ==
    Item(Label(<<"Soccer">>), NoOdd,
         Odds1X2(Junk, NumStr(33), NumStr(35)), "home", "away")
TennisItem ==
    Item(Label(<<"tennis">>), NoOdd,
         Odds1X2(NumStr(21), NumStr(33), NumStr(35)), "home", "away")

Body(json, text, data) == [json |-> json, text |-> text, data |-> data]
NoBody == Body(FALSE, "", OtherData)
GoodBody == Body(TRUE, "[valid]", ListData(<<ValidItem>>))
HardErrorBody ==
    Body(TRUE, "{items:[valid,badodds]}",
         DictData(NoSection, ItemList(<<ValidItem, BadOddsItem>>), NonDict))
NoSoccerBody == Body(TRUE, "[tennis]", ListData(<<TennisItem>>))
NonJsonBody == Body(FALSE, "<html>", OtherData)

\* what the server answers to a GET request
Response(status_code, etag, last_modified, body) ==
    [status_code |-> status_code, etag |-> etag,
     last_modified |-> last_modified, body |-> body]
NoResponse == Response(0, "None", "None", NoBody)

GetResponses ==
    {Response(200, "e1", "None", b) :
        b \in {GoodBody, HardErrorBody, NoSoccerBody, NonJsonBody}}
    \cup {Response(304, "e1", "None", NoBody),
          Response(500, "None", "None", NoBody)}

\* the answers the server behind a url may give: "any" leaves it free, the
\* other kinds fix one behaviour
ServerKinds == {"good", "hard_error", "no_soccer", "changing", "gone", "down"}

HeadAllowed(kind, r) ==
    CASE kind = "any" -> TRUE
      [] kind = "down" -> FALSE
      [] kind = "gone" -> r.status_code = 500
      [] OTHER -> r.status_code = 200

GetAllowed(kind, r) ==
    CASE kind = "any" -> TRUE
      [] kind = "good" -> r.status_code = 200 /\ r.body = GoodBody
      [] kind = "hard_error" -> r.status_code = 200 /\ r.body = HardErrorBody
      [] kind = "no_soccer" -> r.status_code = 200 /\ r.body = NoSoccerBody
      [] kind = "changing" ->
             r.status_code = 200 /\ r.body \in {GoodBody, HardErrorBody}
      [] kind = "gone" -> r.status_code = 500
      [] OTHER -> FALSE

ErrorAllowed(kind) == kind \in {"any", "down"}

\* ProbeResult
ProbeResult(has_changes, etag, last_modified, content_hash, status, error) ==
    [has_changes |-> has_changes, etag |-> etag,
     last_modified |-> last_modified, content_hash |-> content_hash,
     status_code |-> status, error |-> error]
NoProbe == ProbeResult(FALSE, "None", "None", "", 0, "")

\* the dict test_endpoint returns; `keys` holds those of the optional keys
\* 'error', 'from_cache', 'contains_soccer', 'validation_passed' it has
NoResult ==
    [exists |-> FALSE, endpoint |-> "", status_code |-> 0,
     available |-> FALSE, error |-> "", test_time |-> "",
     from_cache |-> FALSE, data_structure |-> "",
     contains_soccer |-> FALSE, validation_passed |-> FALSE,
     validation_errors |-> <<>>, content_hash |-> "", keys |-> {}]

\* an entry of self.endpoint_cache; `present` is `endpoint in endpoint_cache`
NoEntry ==
    [present |-> FALSE, content_hash |-> "None", last_probe |-> "None",
     etag |-> "None", last_modified |-> "None", last_fetch |-> "None",
     test_result |-> NoResult]

\* what a call has done so far (history)
NoTrace ==
    [breaker |-> "none", limiter |-> "none", head |-> "none",
     get |-> "none", recorded |-> <<>>, cached |-> NoResult,
     hit |-> FALSE, raised |-> FALSE]

\* the locals of a test_endpoint call
NoCall ==
    [endpoint |-> "", probe_result |-> NoProbe, response |-> NoResponse,
     result |-> NoResult, trace |-> NoTrace]

\* the cache file found on disk: none, one that is not JSON, or one holding
\* the header fingerprint and the test result of u1
NoCacheFile == [exists |-> FALSE, ok |-> FALSE,
                endpoint_cache |-> [u \in Urls |-> NoEntry],
                content_hashes |-> [u \in Urls |-> "None"]]
BadCacheFile == [NoCacheFile EXCEPT !.exists = TRUE]
CachedResult ==
    [NoResult EXCEPT !.exists = TRUE, !.endpoint = "u1",
                     !.status_code = 200, !.available = TRUE,
                     !.test_time = "T0", !.data_structure = "list",
                     !.contains_soccer = TRUE, !.validation_passed = TRUE,
                     !.content_hash = md5("[valid]"),
                     !.keys = {"from_cache", "contains_soccer",
                               "validation_passed"}]
GoodCacheFile ==
    [exists |-> TRUE, ok |-> TRUE,
     endpoint_cache |->
        [u \in Urls |->
            IF u = "u1"
            THEN [NoEntry EXCEPT
                    !.present = TRUE,
                    !.content_hash =
                        md5(version_data(HeadResponse("e1", "None", "10", 200))),
                    !.test_result = CachedResult]
            ELSE NoEntry],
     content_hashes |->
        [u \in Urls |->
            IF u = "u1"
            THEN md5(version_data(HeadResponse("e1", "None", "10", 200)))
            ELSE "None"]]

\* _load_cache(), called once by main() before the loop starts
load_cache ==
    /\ ~cache_loaded
    /\ tests = 0
    /\ cache_loaded' = TRUE
    /\ endpoint_cache' = IF cache_file.exists /\ cache_file.ok
                         THEN cache_file.endpoint_cache ELSE endpoint_cache
    /\ content_hashes' = IF cache_file.exists /\ cache_file.ok
                         THEN cache_file.content_hashes ELSE content_hashes
    /\ UNCHANGED <<cache_file, te_pc, te, teCall, tests, server, stats,
                   requests>>

\* a thread calls test_endpoint(endpoint)
test_endpoint_enter(t) ==
    /\ te_pc[t] = "idle"
    /\ tests < MaxTests
    /\ tests' = tests + 1
    /\ \E endpoint \in Urls :
          te' = [te EXCEPT ![t] = [NoCall EXCEPT !.endpoint = endpoint]]
    /\ te_pc' = [te_pc EXCEPT ![t] = "breaker"]
    /\ UNCHANGED <<endpoint_cache, content_hashes, cache_file, cache_loaded, server,
                   teCall, stats, requests>>

\* variant: a refusal that does not say which gate refused
Denied_unnamed(endpoint, error, now) ==
    [NoResult EXCEPT !.exists = TRUE, !.endpoint = endpoint,
                     !.error = "unavailable", !.test_time = isoformat(now),
                     !.keys = {"error"}]

\* the dict returned when a gate refuses the call
Denied(endpoint, error, now) ==
    [NoResult EXCEPT !.exists = TRUE, !.endpoint = endpoint,
                     !.error = error, !.test_time = isoformat(now),
                     !.keys = {"error"}]

\* variant: a denied call goes on to the next step all the same
after_gate_open(allowed, next) == next

\* where the call goes after a gate: on to the next step, or `return {...}`
after_gate(allowed, next) == IF allowed THEN next ELSE "done"

\* if not self.circuit_breaker.can_execute(): return {...}
test_endpoint_breaker(t) ==
    /\ te_pc[t] = "breaker"
    /\ stats' = can_execute_stats(stats, clock)
    /\ IF can_execute_ret(stats, clock)
       THEN te' = [te EXCEPT ![t].trace.breaker = "allowed"]
       ELSE te' = [te EXCEPT
                     ![t].trace.breaker = "denied",
                     ![t].result = Denied(te[t].endpoint,
                                          "Circuit breaker is open", clock)]
    /\ te_pc' = [te_pc EXCEPT
                   ![t] = after_gate(can_execute_ret(stats, clock), "limiter")]
    /\ UNCHANGED <<endpoint_cache, content_hashes, cache_file, cache_loaded, server,
                   teCall, tests, requests>>

\* min(self.requests)
Min(S) == CHOOSE x \in S : \A y \in S : x <= y

\* variant: the remaining time is returned without the max(0.0, ...)
wait_time_unclamped(reqs, now) ==
    IF reqs = <<>> THEN 0
    ELSE LET oldest_request == Min({reqs[i] : i \in 1..Len(reqs)})
         IN  time_window - (now - oldest_request)

\* RateLimiter.wait_time()
wait_time(reqs, now) ==
    IF reqs = <<>> THEN 0
    ELSE LET oldest_request == Min({reqs[i] : i \in 1..Len(reqs)})
             left == time_window - (now - oldest_request)
         IN  IF left > 0 THEN left ELSE 0

\* a thread calls wait_time(): the body runs under `with self._lock`
rl_wait_time(t) ==
    /\ rl_pc[t] = "idle"
    /\ rl_lock = 0
    /\ waitCall' = [made |-> TRUE, ret |-> wait_time(requests, clock),
                    odd |-> ~waitCall.odd]
    /\ UNCHANGED <<requests, rl_lock, rl_pc, rl_now, rl_ok, rlCall, admitted,
                   rl_calls>>

\* if not self.rate_limiter.can_proceed(): return {...}
test_endpoint_limiter(t) ==
    /\ te_pc[t] = "limiter"
    /\ LET kept == Unexpired(requests, clock)
           ok == HasRoom(kept)
       IN  /\ requests' = Recorded(kept, clock, ok)
           /\ IF ok
              THEN te' = [te EXCEPT ![t].trace.limiter = "allowed"]
              ELSE te' = [te EXCEPT
                            ![t].trace.limiter = "denied",
                            ![t].result =
                               Denied(te[t].endpoint,
                                      "Rate limited, wait "
                                         \o ToString(wait_time(kept, clock))
                                         \o ".0s",
                                      clock)]
           /\ te_pc' = [te_pc EXCEPT ![t] = after_gate(ok, "probe")]
    /\ UNCHANGED <<endpoint_cache, content_hashes, cache_file, cache_loaded, server,
                   teCall, tests, stats>>

\* _side_probe when the HEAD request is answered by r
probe_answered(endpoint, r) ==
    ProbeResult(content_hashes[endpoint] # md5(version_data(r)),
                r.etag, r.last_modified, md5(version_data(r)),
                r.status_code, "")

\* variant: a failed probe reports no change
probe_failed_unchanged == ProbeResult(FALSE, "None", "None", "", 0, "timeout")

\* _side_probe when the HEAD request raises: the except clause
probe_failed == ProbeResult(TRUE, "None", "None", "", 0, "timeout")

\* probe_result = self._side_probe(endpoint)
test_endpoint_probe(t) ==
    /\ te_pc[t] = "probe"
    /\ \/ \E r \in HeadResponses :
            /\ HeadAllowed(server[te[t].endpoint], r)
            /\ te' = [te EXCEPT
                        ![t].probe_result = probe_answered(te[t].endpoint, r),
                        ![t].trace.head = "answered",
                        ![t].trace.cached =
                            endpoint_cache[te[t].endpoint].test_result]
            /\ endpoint_cache' =
                 [endpoint_cache EXCEPT
                    ![te[t].endpoint].present = TRUE,
                    ![te[t].endpoint].content_hash = md5(version_data(r)),
                    ![te[t].endpoint].last_probe = isoformat(clock)]
       \/ /\ ErrorAllowed(server[te[t].endpoint])
          /\ te' = [te EXCEPT
                        ![t].probe_result = probe_failed,
                        ![t].trace.head = "error",
                        ![t].trace.cached =
                            endpoint_cache[te[t].endpoint].test_result]
          /\ UNCHANGED endpoint_cache
    /\ te_pc' = [te_pc EXCEPT ![t] = "fetch"]
    /\ UNCHANGED <<content_hashes, cache_file, cache_loaded, server, teCall, tests,
                   stats, requests>>

\* variant: the cached result is used when the probe saw a change
cache_hit_on_change(probe_result, entry) ==
    probe_result.has_changes /\ entry.present /\ entry.test_result.exists

\* not probe_result.has_changes and endpoint in self.endpoint_cache and the
\* cached 'test_result' is truthy
cache_hit(probe_result, entry) ==
    ~probe_result.has_changes /\ entry.present /\ entry.test_result.exists

\* cached_result['from_cache'] = True; return cached_result
test_endpoint_cached(t) ==
    /\ te_pc[t] = "fetch"
    /\ cache_hit(te[t].probe_result, endpoint_cache[te[t].endpoint])
    /\ LET cached_result == endpoint_cache[te[t].endpoint].test_result
           tagged == [cached_result EXCEPT !.from_cache = TRUE,
                                           !.keys = @ \cup {"from_cache"}]
       IN  /\ endpoint_cache' =
                 [endpoint_cache EXCEPT ![te[t].endpoint].test_result = tagged]
           /\ te' = [te EXCEPT ![t].result = tagged,
                               ![t].trace.hit = TRUE]
    /\ te_pc' = [te_pc EXCEPT ![t] = "done"]
    /\ UNCHANGED <<content_hashes, cache_file, cache_loaded, server, teCall, tests,
                   stats, requests>>

\* response = self._conditional_get(endpoint, probe_result): the request is
\* answered by r (the entry is updated on 200) or raises
test_endpoint_get(t) ==
    /\ te_pc[t] = "fetch"
    /\ ~cache_hit(te[t].probe_result, endpoint_cache[te[t].endpoint])
    /\ \/ \E r \in GetResponses :
            /\ GetAllowed(server[te[t].endpoint], r)
            /\ te' = [te EXCEPT ![t].response = r,
                                ![t].trace.get = "answered"]
            /\ endpoint_cache' =
                 IF r.status_code = 200
                 THEN [endpoint_cache EXCEPT
                         ![te[t].endpoint].present = TRUE,
                         ![te[t].endpoint].etag = r.etag,
                         ![te[t].endpoint].last_modified = r.last_modified,
                         ![te[t].endpoint].last_fetch = isoformat(clock)]
                 ELSE endpoint_cache
            /\ te_pc' = [te_pc EXCEPT ![t] = "process"]
       \/ /\ ErrorAllowed(server[te[t].endpoint])
          /\ te' = [te EXCEPT ![t].trace.get = "error"]
          /\ te_pc' = [te_pc EXCEPT ![t] = "except"]
          /\ UNCHANGED endpoint_cache
    /\ UNCHANGED <<content_hashes, cache_file, cache_loaded, server, teCall, tests,
                   stats, requests>>

\* the result dict built from the response (lines 455-501)
test_result(endpoint, response, now) ==
    LET base == [NoResult EXCEPT
                   !.exists = TRUE, !.endpoint = endpoint,
                   !.status_code = response.status_code,
                   !.available = response.status_code \in {200, 304},
                   !.test_time = isoformat(now),
                   !.keys = {"from_cache"}]
        checked == {"from_cache", "contains_soccer", "validation_passed"}
        validation_result == strict_validate_match_data(response.body.data, now)
    IN  CASE response.status_code = 200 /\ response.body.json ->
               [base EXCEPT
                  !.data_structure = response.body.data.t,
                  !.contains_soccer = validation_result.valid_matches > 0,
                  !.validation_passed = validation_result.is_valid,
                  !.validation_errors = validation_result.errors,
                  !.content_hash = md5(response.body.text),
                  !.keys = checked]
          [] response.status_code = 200 /\ ~response.body.json ->
               [base EXCEPT !.data_structure = "non-json",
                            !.keys = checked]
          [] response.status_code = 304 ->
               [base EXCEPT !.data_structure = "not_modified",
                            !.contains_soccer = TRUE,
                            !.validation_passed = TRUE,
                            !.keys = checked]
          [] OTHER -> base

\* variant: a result that failed validation counts as a failure
breaker_record_validated(result) ==
    IF result.available /\ result.validation_passed
    THEN "success" ELSE "failure"

\* which breaker method the result selects (lines 507-510)
breaker_record(result) ==
    IF result.available THEN "success" ELSE "failure"

\* lines 455-512: build the result, validate a 200 body, remember its hash,
\* cache the result, tell the breaker, return
test_endpoint_process(t) ==
    /\ te_pc[t] = "process"
    /\ LET endpoint == te[t].endpoint
           response == te[t].response
           result == test_result(endpoint, response, clock)
       IN  /\ content_hashes' =
                 IF response.status_code = 200 /\ response.body.json
                 THEN [content_hashes EXCEPT ![endpoint] = result.content_hash]
                 ELSE content_hashes
           /\ endpoint_cache' =
                 [endpoint_cache EXCEPT ![endpoint].present = TRUE,
                                        ![endpoint].test_result = result]
           /\ stats' = IF breaker_record(result) = "success"
                       THEN record_success_stats(stats, clock)
                       ELSE record_failure_stats(stats, clock)
           /\ te' = [te EXCEPT
                       ![t].result = result,
                       ![t].trace.recorded =
                           Append(@, breaker_record(result))]
    /\ te_pc' = [te_pc EXCEPT ![t] = "done"]
    /\ UNCHANGED <<cache_file, cache_loaded, server, teCall, tests, requests>>

\* the dict returned by the except clause (lines 522-529)
Failed(endpoint, error, now) ==
    [NoResult EXCEPT !.exists = TRUE, !.endpoint = endpoint,
                     !.error = error, !.test_time = isoformat(now),
                     !.keys = {"error", "validation_passed"}]

\* variant: the except clause does not tell the breaker
except_record_none(s, now) == s

\* self.circuit_breaker.record_failure() of the except clause
except_record(s, now) == record_failure_stats(s, now)

\* except Exception as e: record_failure(); return {...}
test_endpoint_except(t) ==
    /\ te_pc[t] = "except"
    /\ stats' = except_record(stats, clock)
    /\ te' = [te EXCEPT
                ![t].result = Failed(te[t].endpoint, "timeout", clock),
                ![t].trace.recorded = Append(@, "failure")]
    /\ te_pc' = [te_pc EXCEPT ![t] = "done"]
    /\ UNCHANGED <<endpoint_cache, content_hashes, cache_file, cache_loaded, server,
                   teCall, tests, requests>>

\* the call returns its result to the caller
test_endpoint_return(t) ==
    /\ te_pc[t] = "done"
    /\ teCall' = [te[t] EXCEPT !.trace.raised = FALSE]
    /\ te' = [te EXCEPT ![t] = NoCall]
    /\ te_pc' = [te_pc EXCEPT ![t] = "idle"]
    /\ UNCHANGED <<endpoint_cache, content_hashes, cache_file, cache_loaded, server,
                   tests, stats, requests>>

\* after AdvancedAPIEndpointUpdater.__init__: empty caches, no call running
TestInit ==
    /\ endpoint_cache = [u \in Urls |-> NoEntry]
    /\ content_hashes = [u \in Urls |-> "None"]
    /\ cache_loaded = FALSE
    /\ te_pc = [t \in Threads |-> "idle"]
    /\ te = [t \in Threads |-> NoCall]
    /\ teCall = NoCall
    /\ tests = 0

\* the updater with no cache file on disk
UpdaterTest ==
    /\ cache_file = NoCacheFile
    /\ server = [u \in Urls |-> "any"]
    /\ TestInit

\* the cache file found at start
InitTest ==
    /\ cache_file \in {NoCacheFile, BadCacheFile, GoodCacheFile}
    /\ server = [u \in Urls |-> "any"]
    /\ TestInit

\* the items of the payloads validated at time now
FootballItem(start, odds, home) ==
    Item(Label(<<"american", "FOOTBALL">>), start, odds, home, "away")

PayloadItems(now) ==
    {ValidItem, BadOddsItem, TennisItem, NonDict,
     FootballItem(Num(now + 1), OddsHDA(Num(21), Num(30), Num(40)), "home"),
     FootballItem(Num(now), Odds1X2(Num(21), Num(30), Num(40)), "home"),
     FootballItem(Num(now - 1), Odds1X2(Num(21), Num(30), Num(40)), "home"),
     FootballItem(Num(now - 1), Odds1X2(Junk, Num(30), Num(40)), "home"),
     FootballItem(Junk, Odds1X2(Num(21), Num(30), Num(40)), "home"),
     FootballItem(NoOdd, NoOdds, "home"),
     FootballItem(NoOdd, OddsOther, "home"),
     FootballItem(NoOdd, Odds1X2(Num(21), Num(0), Num(40)), "home"),
     FootballItem(NoOdd, Odds1X2(Num(21), NumStr(10), Num(40)), "home"),
     FootballItem(NoOdd, Odds1X2(Num(21), Num(30), Num(40)), ""),
     Item(NoLabel, NoOdd, Odds1X2(Num(21), Num(30), Num(40)), "home", "away"),
     Item(NumLabel, NoOdd, Odds1X2(Num(21), Num(30), Num(40)), "home", "away")}

SeqsUpTo(S, n) == UNION {[1..k -> S] : k \in 0..n}

\* the decoded payloads handed to the validator: the list and wrapper
\* shapes around every item sequence, single objects, wrappers whose 'data'
\* or 'items' value is not a list, and a value that is neither list nor dict
Payloads(now) ==
    LET lists == SeqsUpTo(PayloadItems(now), MaxItems)
    IN  {ListData(l) : l \in lists}
        \cup {DictData(DictSection(ItemList(l)), NoItems, NonDict) : l \in lists}
        \cup {DictData(NoSection, ItemList(l), NonDict) : l \in lists}
        \cup {DictData(ListSection(l), NoItems, NonDict) : l \in lists}
        \cup {DictData(DictSection(NoItems), ItemList(l), NonDict) : l \in lists}
        \cup {DictData(NoSection, NoItems, it) :
                 it \in {x \in PayloadItems(now) : x.isdict}}
        \cup {DictData(DictSection(iv), NoItems, NonDict) :
                 iv \in {NoItems, NullItems, NumItems}}
        \cup {DictData(s, NoItems, NonDict) : s \in {NullSection, ScalarSection}}
        \cup {DictData(NoSection, iv, NonDict) : iv \in {NullItems, NumItems}}
        \cup {OtherData}

NoVerdict == [done |-> FALSE, at |-> 0, v |-> Verdict(FALSE, <<>>, <<>>, 0, 0)]

\* the validator is applied to the payload
validate ==
    /\ ~verdict.done
    /\ verdict' = [done |-> TRUE, at |-> clock,
                   v |-> strict_validate_match_data(payload, clock)]
    /\ UNCHANGED payload

\* no payload under validation
UpdaterVal ==
    /\ payload = OtherData
    /\ verdict = NoVerdict

InitVal ==
    /\ payload \in Payloads(clock)
    /\ verdict = NoVerdict

(***************************************************************************)
(* check_and_update_endpoints and discover_new_endpoints                   *)
(*                                                                         *)
(* The loop thread runs one check at a time.  The browser automation is    *)
(* the environment: it yields a list of urls, in which a url may repeat.   *)
(* save_config is taken as one step that either replaces the config file   *)
(* or fails and leaves it.                                                 *)
(***************************************************************************)
\* the locals of check_and_update_endpoints and of the discovery it calls
NoCheck ==
    [pc |-> "idle", thread |-> 0, config |-> DefaultConfig,
     current_endpoints |-> <<>>, working_endpoints |-> <<>>,
     failed_endpoints |-> <<>>, path |-> "none", discovered |-> <<>>,
     valid_endpoints |-> <<>>, new_endpoints |-> <<>>, i |-> 1,
     denied |-> <<>>]

\* the last call that returned (history)
NoCheckCall ==
    [made |-> FALSE, ret |-> FALSE, branch |-> "none", saved |-> "none",
     before |-> NoFile, after |-> NoFile, discovered |-> <<>>,
     path |-> "none", endpoints |-> <<>>, current |-> <<>>,
     denied |-> <<>>, working |-> <<>>]

\* the urls the browser may report; "cdn" stands for one that
\* _is_potential_api_url rejects
Candidates == Urls \cup {"cdn"}
is_potential_api_url(url) == url \in Urls

\* result.get(key, False)
get_flag(result, key) == key \in result.keys /\ result[key]

\* list(discovered_endpoints): the elements of a set in some order
Orders(l) ==
    LET S == {l[i] : i \in 1..Len(l)}
    IN  {f \in [1..Cardinality(S) -> S] :
            \A i, j \in 1..Cardinality(S) : i # j => f[i] # f[j]}

\* l[:n]
Prefix(l, n) == SubSeq(l, 1, IF Len(l) < n THEN Len(l) ELSE n)

\* the thread starts test_endpoint(endpoint) and will resume at pc
check_call(t, endpoint) ==
    /\ te_pc[t] = "idle"
    /\ te' = [te EXCEPT ![t] = [NoCall EXCEPT !.endpoint = endpoint]]
    /\ te_pc' = [te_pc EXCEPT ![t] = "breaker"]
    /\ tests' = tests + 1

\* config = self.load_current_config(); current_endpoints = config.get(...)
check_enter(t) ==
    /\ cu.pc = "idle"
    /\ runs < MaxRuns
    /\ runs' = runs + 1
    /\ LET cfg == Loaded(fs_target)
       IN  cu' = [NoCheck EXCEPT
                    !.thread = t, !.config = cfg,
                    !.current_endpoints = cfg.endpoints.l,
                    !.pc = IF cfg.endpoints.l = <<>>
                           THEN "discover" ELSE "test"]
    /\ cuCall' = [NoCheckCall EXCEPT !.before = fs_target]
    /\ UNCHANGED <<fs_target, te, te_pc, tests>>

\* for endpoint in current_endpoints: result = self.test_endpoint(endpoint)
check_test(t) ==
    /\ cu.pc = "test" /\ cu.thread = t
    /\ cu.i <= Len(cu.current_endpoints)
    /\ check_call(t, cu.current_endpoints[cu.i])
    /\ cu' = [cu EXCEPT !.pc = "tested"]
    /\ UNCHANGED <<fs_target, cuCall, runs>>

\* the call was refused by the breaker or by the limiter (lines 416-436)
GateDenied(call) ==
    call.trace.breaker = "denied" \/ call.trace.limiter = "denied"

\* variant: an endpoint whose test was refused is neither working nor failed
check_tested_skip(t) ==
    /\ cu.pc = "tested" /\ cu.thread = t
    /\ te_pc[t] = "idle"
    /\ LET endpoint == cu.current_endpoints[cu.i]
       IN  cu' = IF teCall.result.available
                 THEN [cu EXCEPT !.working_endpoints = Append(@, endpoint),
                                 !.i = @ + 1, !.pc = "test"]
                 ELSE IF GateDenied(teCall)
                 THEN [cu EXCEPT !.denied = Append(@, endpoint),
                                 !.i = @ + 1, !.pc = "test"]
                 ELSE [cu EXCEPT !.failed_endpoints = Append(@, endpoint),
                                 !.denied = IF GateDenied(teCall)
                                            THEN Append(@, endpoint) ELSE @,
                                 !.i = @ + 1, !.pc = "test"]
    /\ UNCHANGED <<fs_target, cuCall, runs, te, te_pc, tests>>

\* if result['available']: working_endpoints.append(endpoint) else: ...
check_tested(t) ==
    /\ cu.pc = "tested" /\ cu.thread = t
    /\ te_pc[t] = "idle"
    /\ LET endpoint == cu.current_endpoints[cu.i]
       IN  cu' = IF teCall.result.available
                 THEN [cu EXCEPT !.working_endpoints = Append(@, endpoint),
                                 !.i = @ + 1, !.pc = "test"]
                 ELSE [cu EXCEPT !.failed_endpoints = Append(@, endpoint),
                                 !.denied = IF GateDenied(teCall)
                                            THEN Append(@, endpoint) ELSE @,
                                 !.i = @ + 1, !.pc = "test"]
    /\ UNCHANGED <<fs_target, cuCall, runs, te, te_pc, tests>>

\* the value returned and what the history keeps of the call
check_return(ret, branch, saved, target) ==
    /\ cu' = NoCheck
    /\ cuCall' = [cuCall EXCEPT
                    !.made = TRUE, !.ret = ret, !.branch = branch,
                    !.saved = saved, !.after = target,
                    !.discovered = cu.discovered, !.path = cu.path,
                    !.endpoints = cu.new_endpoints,
                    !.current = cu.current_endpoints,
                    !.denied = cu.denied,
                    !.working = cu.working_endpoints]

\* after the loop: discovery if an endpoint failed, else return False
check_all_tested(t) ==
    /\ cu.pc = "test" /\ cu.thread = t
    /\ cu.i > Len(cu.current_endpoints)
    /\ IF cu.failed_endpoints # <<>>
       THEN /\ cu' = [cu EXCEPT !.pc = "discover"]
            /\ UNCHANGED cuCall
       ELSE check_return(FALSE, "unchanged", "none", fs_target)
    /\ UNCHANGED <<fs_target, runs, te, te_pc, tests>>

\* discover_new_endpoints: the browser reports `discovered`, through
\* Playwright or, when that import or run fails, through Selenium
discover_new_endpoints(t) ==
    /\ cu.pc = "discover" /\ cu.thread = t
    /\ \E path \in {"playwright", "selenium"},
          discovered \in SeqsUpTo(Candidates, MaxCandidates) :
          cu' = [cu EXCEPT !.pc = "candidate", !.path = path,
                           !.discovered = discovered, !.i = 1,
                           !.valid_endpoints = <<>>]
    /\ UNCHANGED <<fs_target, cuCall, runs, te, te_pc, tests>>

\* for api_info in discovered_apis: test the url if it looks like an API
discover_test(t) ==
    /\ cu.pc = "candidate" /\ cu.thread = t
    /\ cu.i <= Len(cu.discovered)
    /\ IF is_potential_api_url(cu.discovered[cu.i])
       THEN /\ check_call(t, cu.discovered[cu.i])
            /\ cu' = [cu EXCEPT !.pc = "validated"]
       ELSE /\ cu' = [cu EXCEPT !.i = @ + 1]
            /\ UNCHANGED <<te, te_pc, tests>>
    /\ UNCHANGED <<fs_target, cuCall, runs>>

\* valid_endpoints.append(endpoint) of the Playwright path;
\* discovered_endpoints.add(url) of the Selenium path
Collected(path, valid_endpoints, endpoint) ==
    IF path = "selenium"
          /\ \E k \in 1..Len(valid_endpoints) : valid_endpoints[k] = endpoint
    THEN valid_endpoints
    ELSE Append(valid_endpoints, endpoint)

\* if test_result.get('validation_passed', False): collect the url
discover_validated(t) ==
    /\ cu.pc = "validated" /\ cu.thread = t
    /\ te_pc[t] = "idle"
    /\ cu' = [cu EXCEPT
                !.valid_endpoints =
                    IF get_flag(teCall.result, "validation_passed")
                    THEN Collected(cu.path, @, cu.discovered[cu.i])
                    ELSE @,
                !.i = @ + 1, !.pc = "candidate"]
    /\ UNCHANGED <<fs_target, cuCall, runs, te, te_pc, tests>>

\* return valid_endpoints / return list(discovered_endpoints)
discover_return(t) ==
    /\ cu.pc = "candidate" /\ cu.thread = t
    /\ cu.i > Len(cu.discovered)
    /\ \E new_endpoints \in
            IF cu.path = "selenium" THEN Orders(cu.valid_endpoints)
            ELSE {cu.valid_endpoints} :
          cu' = [cu EXCEPT
                   !.new_endpoints = new_endpoints, !.i = 1,
                   !.pc = IF cu.current_endpoints = <<>>
                          THEN "adopt" ELSE "candidates"]
    /\ UNCHANGED <<fs_target, cuCall, runs, te, te_pc, tests>>

\* the config file after save_config(config) at time now, and its result
save_config_result(cfg, now, ok) ==
    [ret |-> ok,
     target |-> IF ok THEN File(dumps(Stamped(cfg, now))) ELSE fs_target]

\* the first branch ignores what save_config returned: return True
adopt_return(ok) == TRUE

\* the branch of an empty config: keep the first three urls, save, return
check_adopt(t) ==
    /\ cu.pc = "adopt" /\ cu.thread = t
    /\ IF cu.new_endpoints # <<>>
       THEN \E ok \in BOOLEAN :
              LET cfg == [cu.config EXCEPT
                            !.endpoints = JList(Prefix(cu.new_endpoints, 3)),
                            !.discovery_method = JStr("auto_discovery"),
                            !.notes = JStr("discovered " \o isoformat(clock))]
                  saved == save_config_result(cfg, clock, ok)
              IN  /\ fs_target' = saved.target
                  /\ check_return(adopt_return(saved.ret), "empty",
                                  IF ok THEN "ok" ELSE "failed", saved.target)
       ELSE /\ check_return(FALSE, "empty", "none", fs_target)
            /\ UNCHANGED fs_target
    /\ UNCHANGED <<runs, te, te_pc, tests>>

\* for endpoint in new_endpoints: if endpoint not in working_endpoints: test
check_candidate(t) ==
    /\ cu.pc = "candidates" /\ cu.thread = t
    /\ cu.i <= Len(cu.new_endpoints)
    /\ IF \E k \in 1..Len(cu.working_endpoints) :
             cu.working_endpoints[k] = cu.new_endpoints[cu.i]
       THEN /\ cu' = [cu EXCEPT !.i = @ + 1]
            /\ UNCHANGED <<te, te_pc, tests>>
       ELSE /\ check_call(t, cu.new_endpoints[cu.i])
            /\ cu' = [cu EXCEPT !.pc = "candidate_tested"]
    /\ UNCHANGED <<fs_target, cuCall, runs>>

\* if result['available'] and result.get('contains_soccer', False): append
check_candidate_tested(t) ==
    /\ cu.pc = "candidate_tested" /\ cu.thread = t
    /\ te_pc[t] = "idle"
    /\ cu' = [cu EXCEPT
                !.working_endpoints =
                    IF teCall.result.available
                          /\ get_flag(teCall.result, "contains_soccer")
                    THEN Append(@, cu.new_endpoints[cu.i])
                    ELSE @,
                !.i = @ + 1, !.pc = "candidates"]
    /\ UNCHANGED <<fs_target, cuCall, runs, te, te_pc, tests>>

\* if working_endpoints != current_endpoints: keep the first five, save and
\* return what save_config returned; else return False
check_update(t) ==
    /\ cu.pc = "candidates" /\ cu.thread = t
    /\ cu.i > Len(cu.new_endpoints)
    /\ IF cu.working_endpoints # cu.current_endpoints
       THEN \E ok \in BOOLEAN :
              LET cfg == [cu.config EXCEPT
                            !.endpoints = JList(Prefix(cu.working_endpoints, 5)),
                            !.discovery_method = JStr("auto_update"),
                            !.notes = JStr("updated " \o isoformat(clock))]
                  saved == save_config_result(cfg, clock, ok)
              IN  /\ fs_target' = saved.target
                  /\ check_return(saved.ret, "update",
                                  IF ok THEN "ok" ELSE "failed", saved.target)
       ELSE /\ check_return(FALSE, "update", "none", fs_target)
            /\ UNCHANGED fs_target
    /\ UNCHANGED <<runs, te, te_pc, tests>>

\* no check running
UpdaterCheck ==
    /\ cu = NoCheck
    /\ cuCall = NoCheckCall
    /\ runs = 0

(***************************************************************************)
(* check_and_update_endpoints from several threads                         *)
(*                                                                         *)
(* Of a call the config store sees load_current_config at line 805 and, if *)
(* the call changes the endpoints, save_config at line 861.  Each of the   *)
(* two runs under _config_lock from start to end and is one step here; the *)
(* lock is free in between, while the call tests and discovers endpoints.  *)
(* config[t] is the caller's dict, st_pc[t] its position.                  *)
(***************************************************************************)
\* the lists of working endpoints a call may arrive at
WorkingLists == {<<>>, <<"u1">>, <<"u2">>}

\* config = self.load_current_config()
caller_load(t) ==
    /\ st_pc[t] = "idle"
    /\ config_lock = 0
    /\ config' = [config EXCEPT ![t] = Loaded(fs_target)]
    /\ st_pc' = [st_pc EXCEPT ![t] = "checking"]
    /\ UNCHANGED <<fs_target, fs_temp, fs_orphans, config_lock, content,
                   temp_file, fault, saveHist, saveCall, lastSaved, loadCall,
                   saves, crashed>>

\* lines 857-866: the endpoints differ, the caller's dict is updated and
\* saved
caller_save(t) ==
    /\ st_pc[t] = "checking"
    /\ config_lock = 0
    /\ \E working_endpoints \in WorkingLists, ok \in BOOLEAN :
          /\ working_endpoints # config[t].endpoints.l
          /\ LET cfg == [config[t] EXCEPT
                           !.endpoints = JList(Prefix(working_endpoints, 5)),
                           !.discovery_method = JStr("auto_update"),
                           !.notes = JStr("updated " \o isoformat(clock))]
             IN  /\ fs_target' = save_config_result(cfg, clock, ok).target
                 /\ config' = [config EXCEPT ![t] = Stamped(cfg, clock)]
    /\ st_pc' = [st_pc EXCEPT ![t] = "returned"]
    /\ UNCHANGED <<fs_temp, fs_orphans, config_lock, content, temp_file,
                   fault, saveHist, saveCall, lastSaved, loadCall, saves,
                   crashed>>

\* lines 868-869: nothing to update, return False
caller_return(t) ==
    /\ st_pc[t] = "checking"
    /\ st_pc' = [st_pc EXCEPT ![t] = "returned"]
    /\ UNCHANGED <<fs_target, fs_temp, fs_orphans, config_lock, config,
                   content, temp_file, fault, saveHist, saveCall, lastSaved,
                   loadCall, saves, crashed>>

(***************************************************************************)
(* test_endpoint from several worker threads                               *)
(*                                                                         *)
(* No lock guards self.endpoint_cache.  Each of the three places that      *)
(* update an entry tests `endpoint not in self.endpoint_cache`, creates    *)
(* the entry with `= {}` if it saw none, and then assigns its fields;      *)
(* another thread may run between the test, the creation and the           *)
(* assignments.  The gates, the except clause and the return are the steps *)
(* of test_endpoint above.                                                 *)
(***************************************************************************)
\* self.endpoint_cache[endpoint] = {}
EmptyEntry == [NoEntry EXCEPT !.present = TRUE]

\* where a thread goes after `if endpoint not in self.endpoint_cache:`
entry_test(t, create, write) ==
    /\ te_pc' = [te_pc EXCEPT
                   ![t] = IF endpoint_cache[te[t].endpoint].present
                          THEN write ELSE create]
    /\ UNCHANGED <<te, endpoint_cache>>

\* self.endpoint_cache[endpoint] = {} by a thread that saw no entry
entry_create(t, write) ==
    /\ endpoint_cache' = [endpoint_cache EXCEPT ![te[t].endpoint] = EmptyEntry]
    /\ te_pc' = [te_pc EXCEPT ![t] = write]
    /\ UNCHANGED te

\* response = self.session.head(endpoint, timeout=5) and the ProbeResult
race_probe_head(t) ==
    /\ te_pc[t] = "probe"
    /\ \/ \E r \in HeadResponses :
            /\ HeadAllowed(server[te[t].endpoint], r)
            /\ te' = [te EXCEPT
                        ![t].probe_result = probe_answered(te[t].endpoint, r),
                        ![t].trace.head = "answered",
                        ![t].trace.cached =
                            endpoint_cache[te[t].endpoint].test_result]
            /\ te_pc' = [te_pc EXCEPT ![t] = "probe_test"]
       \/ /\ ErrorAllowed(server[te[t].endpoint])
          /\ te' = [te EXCEPT
                        ![t].probe_result = probe_failed,
                        ![t].trace.head = "error",
                        ![t].trace.cached =
                            endpoint_cache[te[t].endpoint].test_result]
          /\ te_pc' = [te_pc EXCEPT ![t] = "fetch"]
    /\ UNCHANGED <<endpoint_cache, content_hashes, cache_file, cache_loaded,
                   server, teCall, tests, stats, requests>>

\* line 359 of _side_probe
race_probe_test(t) ==
    /\ te_pc[t] = "probe_test"
    /\ entry_test(t, "probe_create", "probe_write")
    /\ UNCHANGED <<content_hashes, cache_file, cache_loaded, server, teCall,
                   tests, stats, requests>>

\* line 360 of _side_probe
race_probe_create(t) ==
    /\ te_pc[t] = "probe_create"
    /\ entry_create(t, "probe_write")
    /\ UNCHANGED <<content_hashes, cache_file, cache_loaded, server, teCall,
                   tests, stats, requests>>

\* lines 361-362 of _side_probe
race_probe_write(t) ==
    /\ te_pc[t] = "probe_write"
    /\ endpoint_cache' =
         [endpoint_cache EXCEPT
            ![te[t].endpoint].present = TRUE,
            ![te[t].endpoint].content_hash = te[t].probe_result.content_hash,
            ![te[t].endpoint].last_probe = isoformat(clock)]
    /\ te_pc' = [te_pc EXCEPT ![t] = "fetch"]
    /\ UNCHANGED <<te, content_hashes, cache_file, cache_loaded, server,
                   teCall, tests, stats, requests>>

\* response = self.session.get(...) of _conditional_get
race_get_send(t) ==
    /\ te_pc[t] = "fetch"
    /\ ~cache_hit(te[t].probe_result, endpoint_cache[te[t].endpoint])
    /\ \/ \E r \in GetResponses :
            /\ GetAllowed(server[te[t].endpoint], r)
            /\ te' = [te EXCEPT ![t].response = r,
                                ![t].trace.get = "answered"]
            /\ te_pc' = [te_pc EXCEPT
                           ![t] = IF r.status_code = 200
                                  THEN "get_test" ELSE "process"]
       \/ /\ ErrorAllowed(server[te[t].endpoint])
          /\ te' = [te EXCEPT ![t].trace.get = "error"]
          /\ te_pc' = [te_pc EXCEPT ![t] = "except"]
    /\ UNCHANGED <<endpoint_cache, content_hashes, cache_file, cache_loaded,
                   server, teCall, tests, stats, requests>>

\* line 403 of _conditional_get
race_get_test(t) ==
    /\ te_pc[t] = "get_test"
    /\ entry_test(t, "get_create", "get_write")
    /\ UNCHANGED <<content_hashes, cache_file, cache_loaded, server, teCall,
                   tests, stats, requests>>

\* line 404 of _conditional_get
race_get_create(t) ==
    /\ te_pc[t] = "get_create"
    /\ entry_create(t, "get_write")
    /\ UNCHANGED <<content_hashes, cache_file, cache_loaded, server, teCall,
                   tests, stats, requests>>

\* lines 405-407 of _conditional_get
race_get_write(t) ==
    /\ te_pc[t] = "get_write"
    /\ endpoint_cache' =
         [endpoint_cache EXCEPT
            ![te[t].endpoint].present = TRUE,
            ![te[t].endpoint].etag = te[t].response.etag,
            ![te[t].endpoint].last_modified = te[t].response.last_modified,
            ![te[t].endpoint].last_fetch = isoformat(clock)]
    /\ te_pc' = [te_pc EXCEPT ![t] = "process"]
    /\ UNCHANGED <<te, content_hashes, cache_file, cache_loaded, server,
                   teCall, tests, stats, requests>>

\* lines 455-501 of test_endpoint: the result dict and content_hashes
race_result(t) ==
    /\ te_pc[t] = "process"
    /\ LET endpoint == te[t].endpoint
           response == te[t].response
           result == test_result(endpoint, response, clock)
       IN  /\ content_hashes' =
                 IF response.status_code = 200 /\ response.body.json
                 THEN [content_hashes EXCEPT ![endpoint] = result.content_hash]
                 ELSE content_hashes
           /\ te' = [te EXCEPT ![t].result = result]
    /\ te_pc' = [te_pc EXCEPT ![t] = "store_test"]
    /\ UNCHANGED <<endpoint_cache, cache_file, cache_loaded, server, teCall,
                   tests, stats, requests>>

\* line 504 of test_endpoint
race_store_test(t) ==
    /\ te_pc[t] = "store_test"
    /\ entry_test(t, "store_create", "store_write")
    /\ UNCHANGED <<content_hashes, cache_file, cache_loaded, server, teCall,
                   tests, stats, requests>>

\* line 505 of test_endpoint
race_store_create(t) ==
    /\ te_pc[t] = "store_create"
    /\ entry_create(t, "store_write")
    /\ UNCHANGED <<content_hashes, cache_file, cache_loaded, server, teCall,
                   tests, stats, requests>>

\* lines 506-512 of test_endpoint: the result is cached, the breaker told
race_store_write(t) ==
    /\ te_pc[t] = "store_write"
    /\ endpoint_cache' =
         [endpoint_cache EXCEPT ![te[t].endpoint].present = TRUE,
                                ![te[t].endpoint].test_result = te[t].result]
    /\ stats' = IF breaker_record(te[t].result) = "success"
                THEN record_success_stats(stats, clock)
                ELSE record_failure_stats(stats, clock)
    /\ te' = [te EXCEPT
                ![t].trace.recorded = Append(@, breaker_record(te[t].result))]
    /\ te_pc' = [te_pc EXCEPT ![t] = "done"]
    /\ UNCHANGED <<content_hashes, cache_file, cache_loaded, server, teCall,
                   tests, requests>>

(***************************************************************************)
(* auto_update_loop                                                        *)
(*                                                                         *)
(* The loop thread runs cycle after cycle.  Of the call of                 *)
(* check_and_update_endpoints (modelled step by step above) a cycle keeps  *)
(* what the loop depends on: the test_endpoint calls it makes, the config  *)
(* file it may replace, and how it ends: with True, with False or with an  *)
(* exception (for one, AttributeError at line 806 when the config file     *)
(* holds a JSON list).  KeyboardInterrupt may arrive at any step.  The     *)
(* clock advances while the loop sleeps; the seconds of a back-off between *)
(* two attempts are below its resolution.                                  *)
(***************************************************************************)
\* the monitor calls test_endpoint from its one loop thread: a call starts
\* when none is running
Sequential == \A t \in Threads : te_pc[t] = "idle"

\* the one thread that runs the monitoring loop
LoopThread == CHOOSE t \in Threads : TRUE

\* self.probe_interval of __init__, on the scale of the breaker's timeout
probe_interval == MaxTimeout

\* max_consecutive_failures = 5
max_consecutive_failures == 5

\* max_retries=3 of the call of _retry_with_backoff
max_retries == 3

\* the locals of auto_update_loop
NoLoop ==
    [pc |-> "idle", interval_minutes |-> 0, consecutive_failures |-> 0,
     attempt |-> 0, updated |-> FALSE, endpoints |-> <<>>, i |-> 1,
     probe_results |-> 0, cycles |-> 0]

\* history: the failed cycles in a row and what ended the loop
NoLoopHist == [streak |-> 0, ended_by |-> "none"]

\* datetime.fromisoformat(text): the inverse of isoformat, or ValueError
fromisoformat(text, latest) ==
    IF \E n \in 0..latest : isoformat(n) = text
    THEN [ok |-> TRUE, v |-> CHOOSE n \in 0..latest : isoformat(n) = text]
    ELSE [ok |-> FALSE, v |-> 0]

\* _should_probe(endpoint), on the entry of the endpoint in endpoint_cache
should_probe(entry, now) ==
    IF ~entry.present THEN TRUE
    ELSE IF entry.last_probe = "None" THEN TRUE
    ELSE LET last_probe_time == fromisoformat(entry.last_probe, now)
         IN  IF ~last_probe_time.ok THEN TRUE
             ELSE now - last_probe_time.v > probe_interval

\* a caller starts auto_update_loop(interval_minutes)
loop_start ==
    /\ lp.pc = "idle"
    /\ \E interval_minutes \in 1..MaxInterval :
          lp' = [NoLoop EXCEPT !.pc = "cycle",
                               !.interval_minutes = interval_minutes]
    /\ UNCHANGED <<clock, lpHist, fs_target, endpoint_cache, cache_file,
                   te, te_pc>>

\* while True: try: ... self._retry_with_backoff(...)
loop_cycle ==
    /\ lp.pc = "cycle"
    /\ lp.cycles < MaxCycles
    /\ lp' = [lp EXCEPT !.pc = "attempt", !.attempt = 0, !.cycles = @ + 1,
                        !.updated = FALSE]
    /\ UNCHANGED <<clock, lpHist, fs_target, endpoint_cache, cache_file,
                   te, te_pc>>

\* the endpoint lists a check can keep: of endpoints that answer with
\* football content
Kept == {e \in {<<"u1">>, <<"u2">>, <<"u1", "u2">>} : \A k \in 1..Len(e) : server[e[k]] = "good"}

\* the config files a check writes when it returns True: the file with the
\* endpoints replaced, or (save_config having failed in the first branch)
\* the file as it was
CheckWrites(file, now) ==
    {file} \cup
    {File(dumps(Stamped([Loaded(file) EXCEPT
                            !.endpoints = JList(e),
                            !.discovery_method = JStr("auto_discovery")],
                        now))) : e \in Kept}

\* return func(): check_and_update_endpoints returns `updated`
loop_attempt_returns ==
    /\ lp.pc = "attempt"
    /\ Sequential
    /\ \E updated \in BOOLEAN :
          /\ lp' = [lp EXCEPT !.pc = "load", !.updated = updated]
          /\ fs_target' \in IF updated THEN CheckWrites(fs_target, clock)
                                       ELSE {fs_target}
    /\ UNCHANGED <<clock, lpHist, endpoint_cache, cache_file, te, te_pc>>

\* variant: the wrapper sleeps and tries again after every failed attempt
retry_next_always(attempt) == "backoff"

\* except Exception as e: if attempt == max_retries - 1: raise e
retry_next(attempt) ==
    IF attempt = max_retries - 1 THEN "failed" ELSE "backoff"

\* func() raises an exception
loop_attempt_raises ==
    /\ lp.pc = "attempt"
    /\ Sequential
    /\ lp' = [lp EXCEPT !.pc = retry_next(lp.attempt)]
    /\ UNCHANGED <<clock, lpHist, fs_target, endpoint_cache, cache_file,
                   te, te_pc>>

\* time.sleep(delay), then the next attempt
loop_backoff ==
    /\ lp.pc = "backoff"
    /\ lp' = [lp EXCEPT !.pc = "attempt", !.attempt = @ + 1]
    /\ UNCHANGED <<clock, lpHist, fs_target, endpoint_cache, cache_file,
                   te, te_pc>>

\* config = self.load_current_config(); probe_results = []
loop_load ==
    /\ lp.pc = "load"
    /\ lp' = [lp EXCEPT !.pc = "probing",
                        !.endpoints = Loaded(fs_target).endpoints.l,
                        !.i = 1, !.probe_results = 0]
    /\ UNCHANGED <<clock, lpHist, fs_target, endpoint_cache, cache_file,
                   te, te_pc>>

\* the entry of endpoint_cache after _side_probe got the answer r
probed(entry, r, now) ==
    [entry EXCEPT !.present = TRUE,
                  !.content_hash = md5(version_data(r)),
                  !.last_probe = isoformat(now)]

\* for endpoint in config.get('endpoints', []): if self._should_probe(...):
\* probe_result = self._side_probe(endpoint)
loop_probe ==
    /\ lp.pc = "probing"
    /\ lp.i <= Len(lp.endpoints)
    /\ LET endpoint == lp.endpoints[lp.i]
       IN  IF should_probe(endpoint_cache[endpoint], clock)
           THEN /\ \/ \E r \in HeadResponses :
                        /\ HeadAllowed(server[endpoint], r)
                        /\ endpoint_cache' =
                             [endpoint_cache EXCEPT
                                ![endpoint] = probed(@, r, clock)]
                   \/ /\ ErrorAllowed(server[endpoint])
                      /\ UNCHANGED endpoint_cache
                /\ lp' = [lp EXCEPT !.i = @ + 1, !.probe_results = @ + 1]
           ELSE /\ lp' = [lp EXCEPT !.i = @ + 1]
                /\ UNCHANGED endpoint_cache
    /\ UNCHANGED <<clock, lpHist, fs_target, cache_file, te, te_pc>>

\* the cache file after _save_cache: the call self._atomic_write(...) only
\* creates the context manager, which is never entered, so that nothing of
\* its body (lines 287-313) runs and no exception is raised
save_cache(file, cache, hashes) == file

\* self._save_cache()
loop_save_cache ==
    /\ lp.pc = "probing"
    /\ lp.i > Len(lp.endpoints)
    /\ cache_file' = save_cache(cache_file, endpoint_cache, content_hashes)
    /\ lp' = [lp EXCEPT !.pc = "saved"]
    /\ UNCHANGED <<clock, lpHist, fs_target, endpoint_cache, te, te_pc>>

\* if updated: consecutive_failures = 0
completed_count(updated, consecutive_failures) ==
    IF updated THEN 0 ELSE consecutive_failures

\* the end of the try block: the cycle has completed (config and
\* probe_results are not read again before the next cycle assigns them)
loop_finish ==
    /\ lp.pc = "saved"
    /\ lp' = [lp EXCEPT
                !.pc = "sleep",
                !.consecutive_failures = completed_count(lp.updated, @),
                !.endpoints = <<>>, !.i = 1, !.probe_results = 0]
    /\ lpHist' = [lpHist EXCEPT !.streak = 0]
    /\ UNCHANGED <<clock, fs_target, endpoint_cache, cache_file, te, te_pc>>

\* variant: the clause catches no exception of the cycle
loop_handles_none(exception) == FALSE

\* `except Exception as e:` of the loop
loop_handles(exception) == exception = "Exception"

\* the exception of the last attempt reaches the except clauses of the loop
loop_except ==
    /\ lp.pc = "failed"
    /\ IF loop_handles("Exception")
       THEN /\ lp' = [lp EXCEPT
                        !.consecutive_failures = @ + 1,
                        !.pc = IF lp.consecutive_failures + 1
                                     >= max_consecutive_failures
                               THEN "extended_sleep" ELSE "sleep"]
            /\ lpHist' = [lpHist EXCEPT !.streak = @ + 1]
       ELSE /\ lp' = [NoLoop EXCEPT !.pc = "ended"]
            /\ lpHist' = [lpHist EXCEPT !.ended_by = "Exception"]
    /\ UNCHANGED <<clock, fs_target, endpoint_cache, cache_file, te, te_pc>>

\* time.sleep(extended_wait * 60); consecutive_failures = 0; continue
loop_extended_sleep ==
    /\ lp.pc = "extended_sleep"
    /\ clock' = clock + 2 * lp.interval_minutes
    /\ lp' = [lp EXCEPT !.pc = "cycle", !.consecutive_failures = 0]
    /\ lpHist' = [lpHist EXCEPT !.streak = 0]
    /\ UNCHANGED <<fs_target, endpoint_cache, cache_file, te, te_pc>>

\* time.sleep(interval_minutes * 60)
loop_sleep ==
    /\ lp.pc = "sleep"
    /\ clock' = clock + lp.interval_minutes
    /\ lp' = [lp EXCEPT !.pc = "cycle"]
    /\ UNCHANGED <<lpHist, fs_target, endpoint_cache, cache_file, te, te_pc>>

\* KeyboardInterrupt: `break` inside the try block, and out of the function
\* when it arrives during a sleep; a running test_endpoint call is left and
\* the locals of the loop are gone
loop_interrupt ==
    /\ lp.pc \notin {"idle", "ended"}
    /\ lp' = [NoLoop EXCEPT !.pc = "ended"]
    /\ lpHist' = [lpHist EXCEPT !.ended_by = "KeyboardInterrupt"]
    /\ te' = [t \in Threads |-> NoCall]
    /\ te_pc' = [t \in Threads |-> "idle"]
    /\ UNCHANGED <<clock, fs_target, endpoint_cache, cache_file>>

(***************************************************************************)
(* Retries: _retry_with_backoff of the updater, and RetryConfig with       *)
(* ErrorHandler.execute_with_retry of error_handler.py.  Delays are in     *)
(* milliseconds.                                                           *)
(***************************************************************************)
\* no call of _retry_with_backoff is running
NoRetry ==
    [pc |-> "idle", max_retries |-> 0, base_delay |-> 0, attempt |-> 0,
     delay |-> 0, retries |-> 0]

\* base_delay of _retry_with_backoff: the default 1.0 and the 2.0 of the loop
base_delays == {1000, 2000}

\* self._retry_with_backoff(func, max_retries, base_delay)
retry_with_backoff_call(m, b) ==
    /\ rw.pc = "idle"
    /\ rw' = [NoRetry EXCEPT !.pc = "attempt", !.max_retries = m,
                             !.base_delay = b]
    /\ UNCHANGED er

\* return func()
retry_with_backoff_returns ==
    /\ rw.pc = "attempt"
    /\ rw' = [rw EXCEPT !.pc = "returned"]
    /\ UNCHANGED er

\* delay = base_delay * (2 ** attempt)
backoff_delay(base_delay, attempt) == base_delay * 2 ^ attempt

\* func() raises: the last attempt raises e, any other computes the delay
retry_with_backoff_raises ==
    /\ rw.pc = "attempt"
    /\ rw' = IF rw.attempt = rw.max_retries - 1
                THEN [rw EXCEPT !.pc = "raised"]
                ELSE [rw EXCEPT !.pc = "sleep",
                                !.delay = backoff_delay(rw.base_delay, rw.attempt)]
    /\ UNCHANGED er

\* time.sleep(delay), then the next attempt of the for loop
retry_with_backoff_sleep ==
    /\ rw.pc = "sleep"
    /\ rw' = [rw EXCEPT !.pc = "attempt", !.attempt = @ + 1,
                        !.retries = @ + 1]
    /\ UNCHANGED er

\* RetryConfig.__init__ with its defaults for the arguments not given
RetryConfig(max_attempts, base_delay, max_delay) ==
    [max_attempts |-> max_attempts, base_delay |-> base_delay,
     max_delay |-> max_delay, exponential_base |-> 2, jitter |-> TRUE,
     backoff_strategy |-> "exponential"]

\* self.default_retry_config of ErrorHandler.__init__
default_retry_config == RetryConfig(3, 1000, 30000)

\* self.retry_configs of ErrorHandler.__init__
retry_configs ==
    [e \in {"NETWORK_ERROR", "RATE_LIMIT_ERROR", "TIMEOUT_ERROR",
            "SCRAPING_ERROR", "TELEGRAM_ERROR", "CACHE_ERROR"} |->
        CASE e = "NETWORK_ERROR" -> RetryConfig(5, 2000, 60000)
          [] e = "RATE_LIMIT_ERROR" -> RetryConfig(3, 10000, 300000)
          [] e = "TIMEOUT_ERROR" -> RetryConfig(3, 5000, 60000)
          [] e = "SCRAPING_ERROR" -> RetryConfig(2, 3000, 60000)
          [] e = "TELEGRAM_ERROR" -> RetryConfig(3, 1000, 60000)
          [] e = "CACHE_ERROR" -> RetryConfig(2, 500, 60000)]

\* self.retry_configs.get(error_type, self.default_retry_config)
get_retry_config(error_type) ==
    IF error_type \in DOMAIN retry_configs
        THEN retry_configs[error_type] ELSE default_retry_config

\* an exception: the keywords found in the lowercased name of its class and
\* those found in its lowercased message
Raised(name, message) == [name |-> name, message |-> message]

\* the exceptions func raises: ConnectionError, TimeoutError,
\* Exception("timeout ..."), Exception("429 too many requests"),
\* TelegramError, NoSuchElementException, RedisError, ValueError, RuntimeError
Exceptions ==
    {Raised({"connection"}, {}), Raised({"timeout"}, {}),
     Raised({}, {"timeout"}), Raised({}, {"429", "too many requests"}),
     Raised({"telegram"}, {}), Raised({"element"}, {}), Raised({"redis"}, {}),
     Raised({"value"}, {}), Raised({}, {})}

\* any(keyword in text for keyword in keywords)
AnyIn(keywords, found) == keywords \cap found # {}

\* ErrorHandler.classify_exception
classify_exception(e) ==
    CASE AnyIn({"connection", "timeout", "network", "socket", "http"}, e.name)
            -> "NETWORK_ERROR"
      [] OTHER ->
    CASE "timeout" \in e.message \/ "timeout" \in e.name -> "TIMEOUT_ERROR"
      [] OTHER ->
    CASE AnyIn({"rate limit", "too many requests", "429"}, e.message)
            -> "RATE_LIMIT_ERROR"
      [] OTHER ->
    CASE "telegram" \in e.name \/ "bot" \in e.name -> "TELEGRAM_ERROR"
      [] OTHER ->
    CASE AnyIn({"selenium", "webdriver", "element", "parse"}, e.name)
            -> "SCRAPING_ERROR"
      [] OTHER ->
    CASE AnyIn({"redis", "cache", "memory"}, e.name) -> "CACHE_ERROR"
      [] OTHER ->
    CASE AnyIn({"database", "sql", "db"}, e.name) -> "DATABASE_ERROR"
      [] OTHER ->
    CASE AnyIn({"validation", "value", "type", "attribute"}, e.name)
            -> "VALIDATION_ERROR"
      [] OTHER -> "UNKNOWN_ERROR"

\* values of random.random(), in thousandths
RandomValues == {0, 500, 900}

\* the delay before jitter of RetryConfig.calculate_delay
raw_delay(cfg, attempt) ==
    CASE cfg.backoff_strategy = "exponential"
            -> cfg.base_delay * cfg.exponential_base ^ (attempt - 1)
      [] cfg.backoff_strategy = "linear" -> cfg.base_delay * attempt
      [] OTHER -> cfg.base_delay

\* delay = min(delay, self.max_delay)
capped_delay(cfg, attempt) ==
    IF raw_delay(cfg, attempt) < cfg.max_delay
        THEN raw_delay(cfg, attempt) ELSE cfg.max_delay

\* RetryConfig.calculate_delay, random being the value random.random() gives
calculate_delay(cfg, attempt, random) ==
    IF cfg.jitter
        THEN (capped_delay(cfg, attempt) * (500 + random \div 2)) \div 1000
        ELSE capped_delay(cfg, attempt)

\* no call of execute_with_retry is running; retry_config is <<>> for None
\* and <<cfg>> for a RetryConfig
NoExecute ==
    [pc |-> "idle", retry_config |-> <<>>, attempt |-> 0, error_types |-> {},
     current |-> default_retry_config, delay |-> 0, sleeps |-> 0]

\* retry_config or other
OrConfig(retry_config, other) ==
    IF retry_config = <<>> THEN other ELSE retry_config[1]

\* the retry_config arguments: None, and the RetryConfig of retry_on_error
\* with its default arguments
RetryConfigArgs == {<<>>, <<RetryConfig(3, 1000, 60000)>>}

\* error_handler.execute_with_retry(func, retry_config=retry_config)
execute_with_retry_call(retry_config) ==
    /\ er.pc = "idle"
    /\ er' = [NoExecute EXCEPT !.pc = "try", !.retry_config = retry_config,
                               !.attempt = 1]
    /\ UNCHANGED rw

\* return func(*args, **kwargs)
execute_with_retry_returns ==
    /\ er.pc = "try"
    /\ er' = [er EXCEPT !.pc = "returned"]
    /\ UNCHANGED rw

\* func raises e: the except clause up to the break or the delay
execute_with_retry_raises(e, random) ==
    /\ er.pc = "try"
    /\ LET error_type == classify_exception(e)
           current_retry_config ==
               OrConfig(er.retry_config, get_retry_config(error_type))
       IN  er' = IF er.attempt >= current_retry_config.max_attempts
                    THEN [er EXCEPT !.pc = "raised",
                                    !.error_types = @ \cup {error_type},
                                    !.current = current_retry_config,
                                    !.delay = 0]
                    ELSE [er EXCEPT !.pc = "sleep",
                                    !.error_types = @ \cup {error_type},
                                    !.current = current_retry_config,
                                    !.delay = calculate_delay(current_retry_config,
                                                              er.attempt, random)]
    /\ UNCHANGED rw

\* await asyncio.sleep(delay), then the next attempt of
\* range(1, (retry_config or self.default_retry_config).max_attempts + 1), or
\* raise last_exception once the range is used up
execute_with_retry_sleep ==
    /\ er.pc = "sleep"
    /\ er' = IF er.attempt + 1 <= OrConfig(er.retry_config, default_retry_config).max_attempts
                THEN [er EXCEPT !.pc = "try", !.attempt = @ + 1,
                                !.sleeps = @ + 1]
                ELSE [er EXCEPT !.pc = "raised", !.sleeps = @ + 1]
    /\ UNCHANGED rw

\* no retry is running
NoRetries ==
    /\ rw = NoRetry
    /\ er = NoExecute

\* no loop running
UpdaterLoop ==
    /\ lp = NoLoop
    /\ lpHist = NoLoopHist

(***************************************************************************)
(* Specifications                                                          *)
(***************************************************************************)
NextCB ==
    \/ Tick /\ UNCHANGED <<cbVars, rlVars, stVars, teVars, valVars, cuVars, lpVars, rtVars>>
    \/ \E t \in Threads : CBEnter(t) /\ UNCHANGED <<clock, CBParams, rlVars, stVars, teVars, valVars, cuVars, lpVars, rtVars>>
    \/ \E t \in Threads : can_execute(t) /\ UNCHANGED <<clock, CBParams, rlVars, stVars, teVars, valVars, cuVars, lpVars, rtVars>>
    \/ \E t \in Threads : record_success(t) /\ UNCHANGED <<clock, CBParams, rlVars, stVars, teVars, valVars, cuVars, lpVars, rtVars>>
    \/ \E t \in Threads : record_failure(t) /\ UNCHANGED <<clock, CBParams, rlVars, stVars, teVars, valVars, cuVars, lpVars, rtVars>>

StartCB ==
    /\ clock = 0
    /\ InitCB
    /\ UpdaterRL
    /\ UpdaterStore
    /\ UpdaterTest
    /\ UpdaterVal
    /\ UpdaterCheck
    /\ UpdaterLoop
    /\ NoRetries

SpecCB == StartCB /\ [][NextCB]_vars

NextRL ==
    \/ Tick /\ UNCHANGED <<cbVars, rlVars, stVars, teVars, valVars, cuVars, lpVars, rtVars>>
    \/ \E t \in Threads : RLEnter(t) /\ UNCHANGED <<clock, RLParams, cbVars, stVars, teVars, valVars, cuVars, lpVars, rtVars>>
    \/ \E t \in Threads : can_proceed_prune(t) /\ UNCHANGED <<clock, RLParams, cbVars, stVars, teVars, valVars, cuVars, lpVars, rtVars>>
    \/ \E t \in Threads : can_proceed_check(t) /\ UNCHANGED <<clock, RLParams, cbVars, stVars, teVars, valVars, cuVars, lpVars, rtVars>>
    \/ \E t \in Threads : can_proceed_return(t) /\ UNCHANGED <<clock, RLParams, cbVars, stVars, teVars, valVars, cuVars, lpVars, rtVars>>

StartRL ==
    /\ clock = 0
    /\ UpdaterCB
    /\ InitRL
    /\ UpdaterStore
    /\ UpdaterTest
    /\ UpdaterVal
    /\ UpdaterCheck
    /\ UpdaterLoop
    /\ NoRetries

SpecRL == StartRL /\ [][NextRL]_vars

\* can_proceed and wait_time called by the threads of one limiter
NextWait ==
    \/ NextRL
    \/ \E t \in Threads : rl_wait_time(t) /\ UNCHANGED <<clock, RLParams, cbVars, stVars, teVars, valVars, cuVars, lpVars, rtVars>>

\* a limiter of the largest size of the bounds
InitWait ==
    /\ RateLimiter_init(MaxRequests, MaxWindow)
    /\ RLHistInit

StartWait ==
    /\ clock = 0
    /\ UpdaterCB
    /\ InitWait
    /\ UpdaterStore
    /\ UpdaterTest
    /\ UpdaterVal
    /\ UpdaterCheck
    /\ UpdaterLoop
    /\ NoRetries

SpecWait == StartWait /\ [][NextWait]_vars

NextStore ==
    \/ Tick /\ clock < MaxSaveTime /\ UNCHANGED <<cbVars, rlVars, stVars, teVars, valVars, cuVars, lpVars, rtVars>>
    \/ \E t \in Threads : save_config_enter(t) /\ UNCHANGED <<clock, cbVars, rlVars, teVars, valVars, cuVars, lpVars, rtVars>>
    \/ \E t \in Threads : save_config_stamp(t) /\ UNCHANGED <<clock, cbVars, rlVars, teVars, valVars, cuVars, lpVars, rtVars>>
    \/ \E t \in Threads : atomic_write_create(t) /\ UNCHANGED <<clock, cbVars, rlVars, teVars, valVars, cuVars, lpVars, rtVars>>
    \/ \E t \in Threads : atomic_write_write(t) /\ UNCHANGED <<clock, cbVars, rlVars, teVars, valVars, cuVars, lpVars, rtVars>>
    \/ \E t \in Threads : atomic_write_replace(t) /\ UNCHANGED <<clock, cbVars, rlVars, teVars, valVars, cuVars, lpVars, rtVars>>
    \/ \E t \in Threads : save_config_return(t) /\ UNCHANGED <<clock, cbVars, rlVars, teVars, valVars, cuVars, lpVars, rtVars>>
    \/ \E t \in Threads : save_config_except(t) /\ UNCHANGED <<clock, cbVars, rlVars, teVars, valVars, cuVars, lpVars, rtVars>>
    \/ \E t \in Threads : load_current_config_enter(t) /\ UNCHANGED <<clock, cbVars, rlVars, teVars, valVars, cuVars, lpVars, rtVars>>
    \/ \E t \in Threads : load_current_config(t) /\ UNCHANGED <<clock, cbVars, rlVars, teVars, valVars, cuVars, lpVars, rtVars>>
    \/ Crash /\ UNCHANGED <<clock, cbVars, rlVars, teVars, valVars, cuVars, lpVars, rtVars>>
    \/ Restart /\ UNCHANGED <<clock, cbVars, rlVars, teVars, valVars, cuVars, lpVars, rtVars>>

StartStore ==
    /\ clock = 0
    /\ UpdaterCB
    /\ UpdaterRL
    /\ InitStore
    /\ UpdaterTest
    /\ UpdaterVal
    /\ UpdaterCheck
    /\ UpdaterLoop
    /\ NoRetries

SpecStore == StartStore /\ [][NextStore]_vars

cbRest == <<failure_threshold, recovery_timeout, success_threshold, cb_lock,
            cb_pc, cbCall, cbHist>>

rlRest == <<max_requests, time_window, rl_lock, rl_pc, rl_now, rl_ok, rlCall,
            admitted, rl_calls, waitCall>>

NextTest ==
    \/ Tick /\ clock < MaxTestTime /\ UNCHANGED <<cbVars, rlVars, stVars, teVars, valVars, cuVars, lpVars, rtVars>>
    \/ load_cache /\ UNCHANGED <<clock, cbRest, rlRest, stVars, valVars, cuVars, lpVars, rtVars>>
    \/ \E t \in Threads : Sequential /\ test_endpoint_enter(t) /\ UNCHANGED <<clock, cbRest, rlRest, stVars, valVars, cuVars, lpVars, rtVars>>
    \/ \E t \in Threads : test_endpoint_breaker(t) /\ UNCHANGED <<clock, cbRest, rlRest, stVars, valVars, cuVars, lpVars, rtVars>>
    \/ \E t \in Threads : test_endpoint_limiter(t) /\ UNCHANGED <<clock, cbRest, rlRest, stVars, valVars, cuVars, lpVars, rtVars>>
    \/ \E t \in Threads : test_endpoint_probe(t) /\ UNCHANGED <<clock, cbRest, rlRest, stVars, valVars, cuVars, lpVars, rtVars>>
    \/ \E t \in Threads : test_endpoint_cached(t) /\ UNCHANGED <<clock, cbRest, rlRest, stVars, valVars, cuVars, lpVars, rtVars>>
    \/ \E t \in Threads : test_endpoint_get(t) /\ UNCHANGED <<clock, cbRest, rlRest, stVars, valVars, cuVars, lpVars, rtVars>>
    \/ \E t \in Threads : test_endpoint_process(t) /\ UNCHANGED <<clock, cbRest, rlRest, stVars, valVars, cuVars, lpVars, rtVars>>
    \/ \E t \in Threads : test_endpoint_except(t) /\ UNCHANGED <<clock, cbRest, rlRest, stVars, valVars, cuVars, lpVars, rtVars>>
    \/ \E t \in Threads : test_endpoint_return(t) /\ UNCHANGED <<clock, cbRest, rlRest, stVars, valVars, cuVars, lpVars, rtVars>>

StartTest ==
    /\ clock = 0
    /\ ScaledCB
    /\ ScaledRL
    /\ UpdaterStore
    /\ InitTest
    /\ UpdaterVal
    /\ UpdaterCheck
    /\ UpdaterLoop
    /\ NoRetries

SpecTest == StartTest /\ [][NextTest]_vars

NextVal ==
    \/ validate /\ UNCHANGED <<clock, cbVars, rlVars, stVars, teVars, cuVars, lpVars, rtVars>>

StartVal ==
    /\ clock = MaxTime
    /\ UpdaterCB
    /\ UpdaterRL
    /\ UpdaterStore
    /\ UpdaterTest
    /\ InitVal
    /\ UpdaterCheck
    /\ UpdaterLoop
    /\ NoRetries

SpecVal == StartVal /\ [][NextVal]_vars

stRest == <<fs_temp, fs_orphans, config_lock, st_pc, config, content,
            temp_file, fault, saveHist, saveCall, lastSaved, loadCall, saves,
            crashed>>

teRest == <<endpoint_cache, content_hashes, cache_file, cache_loaded, teCall,
            server>>

\* how the server behind each url answers during a check, the config file
\* and the cache file found at start
InitUpdate ==
    /\ cache_file \in {NoCacheFile, GoodCacheFile}
    /\ server \in [Urls -> ServerKinds]
    /\ TestInit

\* main() loads the cache, then the loop thread runs the checks one after
\* the other; the steps of test_endpoint are those of the call the check made
NextUpdate ==
    \/ runs = 0 /\ load_cache /\ UNCHANGED <<clock, cbRest, rlRest, stVars, valVars, cuVars, lpVars, rtVars>>
    \/ \E t \in {LoopThread} : check_enter(t) /\ UNCHANGED <<clock, cbVars, rlVars, stRest, teRest, valVars, lpVars, rtVars>>
    \/ \E t \in {LoopThread} : check_test(t) /\ UNCHANGED <<clock, cbVars, rlVars, stRest, teRest, valVars, lpVars, rtVars>>
    \/ \E t \in {LoopThread} : check_tested(t) /\ UNCHANGED <<clock, cbVars, rlVars, stRest, teRest, valVars, lpVars, rtVars>>
    \/ \E t \in {LoopThread} : check_all_tested(t) /\ UNCHANGED <<clock, cbVars, rlVars, stRest, teRest, valVars, lpVars, rtVars>>
    \/ \E t \in {LoopThread} : discover_new_endpoints(t) /\ UNCHANGED <<clock, cbVars, rlVars, stRest, teRest, valVars, lpVars, rtVars>>
    \/ \E t \in {LoopThread} : discover_test(t) /\ UNCHANGED <<clock, cbVars, rlVars, stRest, teRest, valVars, lpVars, rtVars>>
    \/ \E t \in {LoopThread} : discover_validated(t) /\ UNCHANGED <<clock, cbVars, rlVars, stRest, teRest, valVars, lpVars, rtVars>>
    \/ \E t \in {LoopThread} : discover_return(t) /\ UNCHANGED <<clock, cbVars, rlVars, stRest, teRest, valVars, lpVars, rtVars>>
    \/ \E t \in {LoopThread} : check_adopt(t) /\ UNCHANGED <<clock, cbVars, rlVars, stRest, teRest, valVars, lpVars, rtVars>>
    \/ \E t \in {LoopThread} : check_candidate(t) /\ UNCHANGED <<clock, cbVars, rlVars, stRest, teRest, valVars, lpVars, rtVars>>
    \/ \E t \in {LoopThread} : check_candidate_tested(t) /\ UNCHANGED <<clock, cbVars, rlVars, stRest, teRest, valVars, lpVars, rtVars>>
    \/ \E t \in {LoopThread} : check_update(t) /\ UNCHANGED <<clock, cbVars, rlVars, stRest, teRest, valVars, lpVars, rtVars>>
    \/ \E t \in {LoopThread} : test_endpoint_breaker(t) /\ UNCHANGED <<clock, cbRest, rlRest, stVars, valVars, cuVars, lpVars, rtVars>>
    \/ \E t \in {LoopThread} : test_endpoint_limiter(t) /\ UNCHANGED <<clock, cbRest, rlRest, stVars, valVars, cuVars, lpVars, rtVars>>
    \/ \E t \in {LoopThread} : test_endpoint_probe(t) /\ UNCHANGED <<clock, cbRest, rlRest, stVars, valVars, cuVars, lpVars, rtVars>>
    \/ \E t \in {LoopThread} : test_endpoint_cached(t) /\ UNCHANGED <<clock, cbRest, rlRest, stVars, valVars, cuVars, lpVars, rtVars>>
    \/ \E t \in {LoopThread} : test_endpoint_get(t) /\ UNCHANGED <<clock, cbRest, rlRest, stVars, valVars, cuVars, lpVars, rtVars>>
    \/ \E t \in {LoopThread} : test_endpoint_process(t) /\ UNCHANGED <<clock, cbRest, rlRest, stVars, valVars, cuVars, lpVars, rtVars>>
    \/ \E t \in {LoopThread} : test_endpoint_except(t) /\ UNCHANGED <<clock, cbRest, rlRest, stVars, valVars, cuVars, lpVars, rtVars>>
    \/ \E t \in {LoopThread} : test_endpoint_return(t) /\ UNCHANGED <<clock, cbRest, rlRest, stVars, valVars, cuVars, lpVars, rtVars>>

StartUpdate ==
    /\ clock = 0
    /\ UpdaterCB
    /\ UpdaterRL
    /\ InitStore
    /\ InitUpdate
    /\ UpdaterVal
    /\ UpdaterCheck
    /\ UpdaterLoop
    /\ NoRetries

SpecUpdate == StartUpdate /\ [][NextUpdate]_vars

\* the updater's breaker after five failures in a row at time 0: Open
TrippedCB ==
    /\ failure_threshold = 5
    /\ recovery_timeout = 300
    /\ success_threshold = 3
    /\ stats = [CircuitBreakerStats(OPEN) EXCEPT !.failure_count = 5,
                                                  !.total_requests = 5,
                                                  !.last_failure_time = 0]
    /\ cb_lock = 0
    /\ cb_pc = [t \in Threads |-> "idle"]
    /\ cbCall = [op |-> "record_failure", ret |-> TRUE, at |-> 0,
                 state0 |-> CLOSED, lft0 |-> 0, streak0 |-> 4,
                 start0 |-> CLOSED]
    /\ cbHist = [streak |-> 5, streakStart |-> CLOSED,
                 entered |-> FALSE, succ |-> 0, fail |-> 5]

\* the updater's limiter after twenty admitted requests at time 0
FullRL ==
    /\ max_requests = 20
    /\ time_window = 60
    /\ requests = [k \in 1..20 |-> 0]
    /\ rl_lock = 0
    /\ RLHistInit

\* the breaker and the limiter when the check starts: both fresh, the
\* breaker Open, or the limiter's window used up
InitGates ==
    \/ UpdaterCB /\ UpdaterRL
    \/ TrippedCB /\ UpdaterRL
    \/ UpdaterCB /\ FullRL

\* the config file found at start: none, one endpoint, two endpoints
InitConfigured ==
    /\ fs_target \in {NoFile,
                      File(dumps([DefaultConfig EXCEPT
                                    !.endpoints = JList(<<"u1">>),
                                    !.last_updated = JStr("T0")])),
                      File(dumps([DefaultConfig EXCEPT
                                    !.endpoints = JList(<<"u1", "u2">>),
                                    !.last_updated = JStr("T0")]))}
    /\ StoreInit

\* the servers answer with a valid payload or not at all
InitDenied ==
    /\ cache_file \in {NoCacheFile, GoodCacheFile}
    /\ server \in [Urls -> {"good", "down"}]
    /\ TestInit

StartDenied ==
    /\ clock = 0
    /\ InitGates
    /\ InitConfigured
    /\ InitDenied
    /\ UpdaterVal
    /\ UpdaterCheck
    /\ UpdaterLoop
    /\ NoRetries

\* a check by an updater whose breaker or limiter may refuse every test
SpecDenied == StartDenied /\ [][NextUpdate]_vars

lpRest == <<cbRest, rlRest, fs_temp, fs_orphans, config_lock, st_pc, config, content, temp_file, fault, saveHist, saveCall, lastSaved, loadCall, saves, crashed, content_hashes, cache_loaded, teCall, tests, server, valVars, cuVars, stats, requests, rtVars>>

teRestLoop == <<clock, cbRest, rlRest, stVars, valVars, cuVars, lpVars, rtVars>>

\* the cycles of the loop and KeyboardInterrupt, a check being its outcome
NextCycles ==
    \/ loop_start /\ UNCHANGED lpRest
    \/ loop_cycle /\ UNCHANGED lpRest
    \/ loop_attempt_returns /\ UNCHANGED lpRest
    \/ loop_attempt_raises /\ UNCHANGED lpRest
    \/ loop_backoff /\ UNCHANGED lpRest
    \/ loop_load /\ UNCHANGED lpRest
    \/ loop_probe /\ UNCHANGED lpRest
    \/ loop_save_cache /\ UNCHANGED lpRest
    \/ loop_finish /\ UNCHANGED lpRest
    \/ loop_except /\ UNCHANGED lpRest
    \/ loop_extended_sleep /\ UNCHANGED lpRest
    \/ loop_sleep /\ UNCHANGED lpRest
    \/ loop_interrupt /\ UNCHANGED lpRest

\* the loop together with the test_endpoint calls of its checks
\* (auto_update_loop does not call _load_cache, and with the hashes of a
\* fresh updater no call takes the cached branch of test_endpoint)
NextLoop ==
    \/ NextCycles
    \/ lp.pc = "attempt" /\ Sequential /\ test_endpoint_enter(LoopThread) /\ UNCHANGED teRestLoop
    \/ test_endpoint_breaker(LoopThread) /\ UNCHANGED teRestLoop
    \/ test_endpoint_limiter(LoopThread) /\ UNCHANGED teRestLoop
    \/ test_endpoint_probe(LoopThread) /\ UNCHANGED teRestLoop
    \/ test_endpoint_get(LoopThread) /\ UNCHANGED teRestLoop
    \/ test_endpoint_process(LoopThread) /\ UNCHANGED teRestLoop
    \/ test_endpoint_except(LoopThread) /\ UNCHANGED teRestLoop
    \/ test_endpoint_return(LoopThread) /\ UNCHANGED teRestLoop

\* the servers during the loop: u1 answers with a valid payload, u2 is down
InitLoop ==
    /\ cache_file = NoCacheFile
    /\ server = [u \in Urls |-> IF u = "u1" THEN "good" ELSE "down"]
    /\ TestInit

StartLoop ==
    /\ clock = 0
    /\ ScaledCB
    /\ ScaledRL
    /\ InitStore
    /\ InitLoop
    /\ UpdaterVal
    /\ UpdaterCheck
    /\ UpdaterLoop
    /\ NoRetries

SpecLoop == StartLoop /\ [][NextLoop]_vars

SpecCycles == StartLoop /\ [][NextCycles]_vars

\* worker threads in test_endpoint at the same time, each step of each
\* thread in any order (no cache was loaded, and no call returns the cached
\* result)
NextRace ==
    \/ \E t \in Threads : test_endpoint_enter(t) /\ UNCHANGED teRestLoop
    \/ \E t \in Threads : test_endpoint_breaker(t) /\ UNCHANGED teRestLoop
    \/ \E t \in Threads : test_endpoint_limiter(t) /\ UNCHANGED teRestLoop
    \/ \E t \in Threads : race_probe_head(t) /\ UNCHANGED teRestLoop
    \/ \E t \in Threads : race_probe_test(t) /\ UNCHANGED teRestLoop
    \/ \E t \in Threads : race_probe_create(t) /\ UNCHANGED teRestLoop
    \/ \E t \in Threads : race_probe_write(t) /\ UNCHANGED teRestLoop
    \/ \E t \in Threads : race_get_send(t) /\ UNCHANGED teRestLoop
    \/ \E t \in Threads : race_get_test(t) /\ UNCHANGED teRestLoop
    \/ \E t \in Threads : race_get_create(t) /\ UNCHANGED teRestLoop
    \/ \E t \in Threads : race_get_write(t) /\ UNCHANGED teRestLoop
    \/ \E t \in Threads : race_result(t) /\ UNCHANGED teRestLoop
    \/ \E t \in Threads : race_store_test(t) /\ UNCHANGED teRestLoop
    \/ \E t \in Threads : race_store_create(t) /\ UNCHANGED teRestLoop
    \/ \E t \in Threads : race_store_write(t) /\ UNCHANGED teRestLoop
    \/ \E t \in Threads : test_endpoint_except(t) /\ UNCHANGED teRestLoop
    \/ \E t \in Threads : test_endpoint_return(t) /\ UNCHANGED teRestLoop

\* a fresh updater with the breaker and the limiter of __init__
StartRace ==
    /\ clock = 0
    /\ UpdaterCB
    /\ UpdaterRL
    /\ UpdaterStore
    /\ UpdaterTest
    /\ UpdaterVal
    /\ UpdaterCheck
    /\ UpdaterLoop
    /\ NoRetries

SpecRace == StartRace /\ [][NextRace]_vars

\* every thread makes one call of check_and_update_endpoints
NextRMW ==
    \/ Tick /\ clock < MaxSaveTime /\ UNCHANGED <<cbVars, rlVars, stVars, teVars, valVars, cuVars, lpVars, rtVars>>
    \/ \E t \in Threads : caller_load(t) /\ UNCHANGED <<clock, cbVars, rlVars, teVars, valVars, cuVars, lpVars, rtVars>>
    \/ \E t \in Threads : caller_save(t) /\ UNCHANGED <<clock, cbVars, rlVars, teVars, valVars, cuVars, lpVars, rtVars>>
    \/ \E t \in Threads : caller_return(t) /\ UNCHANGED <<clock, cbVars, rlVars, teVars, valVars, cuVars, lpVars, rtVars>>

StartRMW ==
    /\ clock = 0
    /\ UpdaterCB
    /\ UpdaterRL
    /\ InitStore
    /\ UpdaterTest
    /\ UpdaterVal
    /\ UpdaterCheck
    /\ UpdaterLoop
    /\ NoRetries

SpecRMW == StartRMW /\ [][NextRMW]_vars

rtRest == <<clock, cbVars, rlVars, stVars, teVars, valVars, cuVars, lpVars>>

\* a fresh updater without retries running
StartRetries ==
    /\ clock = 0
    /\ UpdaterCB
    /\ UpdaterRL
    /\ UpdaterStore
    /\ UpdaterTest
    /\ UpdaterVal
    /\ UpdaterCheck
    /\ UpdaterLoop
    /\ NoRetries

\* one call of _retry_with_backoff, func returning or raising at each attempt
NextBackoff ==
    \/ \E m \in 1..MaxRetries, b \in base_delays : retry_with_backoff_call(m, b) /\ UNCHANGED rtRest
    \/ retry_with_backoff_returns /\ UNCHANGED rtRest
    \/ retry_with_backoff_raises /\ UNCHANGED rtRest
    \/ retry_with_backoff_sleep /\ UNCHANGED rtRest

SpecBackoff == StartRetries /\ [][NextBackoff]_vars

\* one call of execute_with_retry, func returning or raising at each attempt
NextRetry ==
    \/ \E c \in RetryConfigArgs : execute_with_retry_call(c) /\ UNCHANGED rtRest
    \/ execute_with_retry_returns /\ UNCHANGED rtRest
    \/ \E e \in Exceptions, r \in RandomValues : execute_with_retry_raises(e, r) /\ UNCHANGED rtRest
    \/ execute_with_retry_sleep /\ UNCHANGED rtRest

SpecRetry == StartRetries /\ [][NextRetry]_vars



(***************************************************************************)
(* Properties of the CircuitBreaker (checked under SpecCB)                 *)
(***************************************************************************)

\* C1: a can_execute call that finds the breaker Open while the time since
\* last_failure_time does not exceed recovery_timeout returns false and
\* leaves the breaker Open.
C1_OpenDenies ==
    (/\ cbCall.op = "can_execute"
     /\ cbCall.state0 = OPEN
     /\ cbCall.lft0 # None
     /\ cbCall.at - cbCall.lft0 <= recovery_timeout)
    => (cbCall.ret = FALSE /\ stats.state = OPEN)

\* a denied call made exactly recovery_timeout (> 0) after the last failure
C1_Witness ==
    /\ cbCall.op = "can_execute"
    /\ cbCall.state0 = OPEN
    /\ recovery_timeout > 0
    /\ cbCall.at - cbCall.lft0 = recovery_timeout
    /\ cbCall.ret = FALSE

\* C2: failure_threshold consecutive record_failure calls that started on a
\* Closed breaker leave it Open, and a can_execute call that follows them
\* with no time elapsed returns false.
C2_ThresholdOpens ==
    /\ (cbHist.streak >= failure_threshold /\ cbHist.streakStart = CLOSED)
          => stats.state = OPEN
    /\ (/\ cbCall.op = "can_execute"
        /\ cbCall.streak0 >= failure_threshold
        /\ cbCall.start0 = CLOSED
        /\ cbCall.at = cbCall.lft0)
          => cbCall.ret = FALSE

\* exactly failure_threshold (> 1) failures from a fresh Closed breaker,
\* then a denied can_execute
C2_Witness ==
    /\ failure_threshold > 1
    /\ cbCall.op = "can_execute"
    /\ cbCall.streak0 = failure_threshold
    /\ cbCall.start0 = CLOSED
    /\ stats.failure_count = failure_threshold
    /\ cbCall.at = cbCall.lft0
    /\ cbCall.ret = FALSE

\* C3: a can_execute call that finds the breaker Open with more than
\* recovery_timeout elapsed since last_failure_time returns true, makes the
\* breaker HalfOpen and resets success_count; no other step takes the
\* breaker from Open to HalfOpen.
C3_LazyHalfOpen ==
    /\ []((/\ cbCall.op = "can_execute"
           /\ cbCall.state0 = OPEN
           /\ cbCall.lft0 # None
           /\ cbCall.at - cbCall.lft0 > recovery_timeout)
          => (/\ cbCall.ret = TRUE
              /\ stats.state = HALF_OPEN
              /\ stats.success_count = 0))
    /\ [][(stats.state = OPEN /\ stats'.state = HALF_OPEN)
             => (cbCall'.op = "can_execute" /\ cbCall'.state0 = OPEN)]_vars

\* HalfOpen entered by can_execute after successes had been counted
C3_Witness ==
    /\ cbCall.op = "can_execute"
    /\ cbCall.state0 = OPEN
    /\ cbCall.at - cbCall.lft0 > recovery_timeout
    /\ stats.state = HALF_OPEN
    /\ stats.last_success_time # None
    /\ cbCall.ret = TRUE

\* C4: since the breaker last entered HalfOpen and as long as no failure was
\* recorded, it is HalfOpen while fewer than success_threshold successes
\* were recorded, and Closed with failure_count 0 once success_threshold
\* successes were recorded.
C4_HalfOpenCloses ==
    (cbHist.entered /\ cbHist.fail = 0)
    => IF cbHist.succ >= success_threshold
       THEN stats.state = CLOSED /\ stats.failure_count = 0
       ELSE stats.state = HALF_OPEN

\* closed again by the second success after entering HalfOpen
C4_Witness ==
    /\ cbHist.entered
    /\ cbHist.fail = 0
    /\ success_threshold = 2
    /\ cbHist.succ = 2
    /\ cbCall.op = "record_success"
    /\ cbCall.state0 = HALF_OPEN
    /\ stats.state = CLOSED

\* C5: a record_failure call that finds the breaker HalfOpen leaves it Open,
\* because failure_count is at least failure_threshold - 1 in every
\* HalfOpen state.
C5_HalfOpenFailureOpens ==
    /\ (cbCall.op = "record_failure" /\ cbCall.state0 = HALF_OPEN)
          => stats.state = OPEN
    /\ stats.state = HALF_OPEN
          => stats.failure_count >= failure_threshold - 1

\* a failure recorded while HalfOpen
C5_Witness ==
    /\ cbCall.op = "record_failure"
    /\ cbCall.state0 = HALF_OPEN
    /\ stats.state = OPEN

(***************************************************************************)
(* Properties of the RateLimiter (checked under SpecRL)                    *)
(***************************************************************************)
\* number of admissions whose timestamp lies in the window (T - W, T]
AdmittedIn(T) ==
    Cardinality({i \in 1..Len(admitted) :
                    admitted[i] <= T /\ T - admitted[i] < time_window})

\* C6: no trailing time_window-long period contains more than max_requests
\* admitted can_proceed calls, and the list never holds more than
\* max_requests timestamps younger than time_window.
C6_WindowBound ==
    /\ \A T \in 0..clock : AdmittedIn(T) <= max_requests
    /\ Len(SelectSeq(requests, LAMBDA r : clock - r < time_window))
          <= max_requests

\* the window is full, an old admission has expired and a later call was
\* admitted in its place
C6_Witness ==
    /\ Len(admitted) > max_requests
    /\ AdmittedIn(clock) = max_requests
    /\ rlCall.ret = TRUE
    /\ rlCall.op = "can_proceed"

\* C7: a can_proceed call that returns false leaves in the list exactly the
\* unexpired timestamps it found there, so at any later time the list holds
\* as many unexpired entries as if the call had not been made.
C7_DeniedRecordsNothing ==
    (rlCall.op = "can_proceed" /\ rlCall.ret = FALSE)
    => /\ rlCall.after =
            SelectSeq(rlCall.before, LAMBDA r : rlCall.now - r < time_window)
       /\ \A T \in rlCall.now..MaxTime :
            Len(SelectSeq(rlCall.after, LAMBDA r : T - r < time_window))
              = Len(SelectSeq(rlCall.before, LAMBDA r : T - r < time_window))

\* a call denied by a full window of two timestamps, the older of which
\* was recorded before the call was made
C7_Witness ==
    /\ rlCall.op = "can_proceed"
    /\ rlCall.ret = FALSE
    /\ Len(rlCall.before) = 2
    /\ rlCall.before[1] < rlCall.now
    /\ rlCall.after = rlCall.before

(***************************************************************************)
(* Properties of the config store (checked under SpecStore)                *)
(***************************************************************************)

\* C8: from the start of a save_config call on, whether it returns, raises
\* or the process is killed, the config file is byte for byte the file the
\* call found or the complete new document; a process killed after the
\* temporary file was created and before the rename leaves the file the
\* call found.
C8_TargetOldOrNew ==
    saveHist.active
    => /\ \/ fs_target = saveHist.prev
          \/ saveHist.doc.exists /\ fs_target = saveHist.doc
       /\ saveHist.killed \in {"write", "replace"}
            => fs_target = saveHist.prev

\* the process was killed while a proper part of the new document was in
\* the temporary file and an older document in the config file
C8_Witness ==
    /\ saveHist.active
    /\ saveHist.killed = "write"
    /\ fs_temp.exists
    /\ Len(fs_temp.data) > 0
    /\ Len(fs_temp.data) < Len(saveHist.doc.data)
    /\ saveHist.prev.exists
    /\ loads(saveHist.prev.data).ok
    /\ fs_target = saveHist.prev

C10_RoundTripAsPassed ==
    loadCall.saved.valid => loadCall.ret = loadCall.saved.arg

\* C10 as amended: a load_current_config made after a save_config(cfg) that
\* returned True returns cfg with last_updated replaced by the time of the
\* save and version replaced by "2.0", which is also the caller's dict as
\* save_config left it; endpoints (in order), discovery_method, notes and
\* features are those passed.
C10_RoundTripStamped ==
    loadCall.saved.valid
    => /\ loadCall.ret =
            [loadCall.saved.arg EXCEPT
               !.last_updated = JStr(isoformat(loadCall.saved.at)),
               !.version = JStr("2.0")]
       /\ loadCall.ret = loadCall.saved.obj
       /\ \A k \in {"endpoints", "discovery_method", "notes", "features"} :
            loadCall.ret[k] = loadCall.saved.arg[k]

\* a config with version "1.0", no last_updated and two endpoints was saved
\* and loaded
C10_Witness ==
    /\ loadCall.saved.valid
    /\ loadCall.saved.arg.version = JStr("1.0")
    /\ loadCall.saved.arg.last_updated = JNull
    /\ loadCall.ret.version = JStr("2.0")
    /\ loadCall.ret.endpoints = JList(<<"u2", "u1">>)

\* C11: load_current_config never raises; when the config file is missing or
\* is not a JSON document it returns the default config (no endpoints,
\* version "2.0"), and a load step leaves the file as it found it.
C11_LoadDefaults ==
    /\ [](loadCall.made
           => /\ ~loadCall.raised
              /\ (~loadCall.file.exists \/ ~loads(loadCall.file.data).ok)
                 => /\ loadCall.ret = DefaultConfig
                    /\ loadCall.ret.endpoints = JList(<<>>)
                    /\ loadCall.ret.version = JStr("2.0"))
    /\ [][\A t \in Threads :
            (st_pc[t] = "load" /\ st_pc'[t] = "idle")
            => /\ fs_target' = fs_target
               /\ fs_temp' = fs_temp
               /\ loadCall'.file = fs_target]_vars

\* a load has found a file that is not a JSON document and returned the
\* default config
C11_Witness ==
    /\ loadCall.made
    /\ loadCall.file.exists
    /\ ~loads(loadCall.file.data).ok
    /\ loadCall.ret = DefaultConfig
    /\ fs_target = loadCall.file


\* the texts of the rate limiter's refusal
RateLimitedErrors ==
    {"Rate limited, wait " \o ToString(w) \o ".0s" : w \in 0..MaxWindow}

\* C12: a test_endpoint call refused by the circuit breaker or by the rate
\* limiter has sent neither HEAD nor GET and returns available=false with an
\* error naming the gate; the two texts differ from each other and no other
\* result carries them.
C12_GateDenials ==
    /\ teCall.trace.breaker = "denied"
       => /\ teCall.trace.limiter = "none"
          /\ teCall.trace.head = "none" /\ teCall.trace.get = "none"
          /\ ~teCall.result.available
          /\ teCall.result.error = "Circuit breaker is open"
    /\ teCall.trace.limiter = "denied"
       => /\ teCall.trace.head = "none" /\ teCall.trace.get = "none"
          /\ ~teCall.result.available
          /\ teCall.result.error \in RateLimitedErrors
    /\ "Circuit breaker is open" \notin RateLimitedErrors
    /\ teCall.result.error = "Circuit breaker is open"
       => teCall.trace.breaker = "denied"
    /\ teCall.result.error \in RateLimitedErrors
       => teCall.trace.limiter = "denied"

\* the limiter has refused a call that the breaker admitted
C12_Witness ==
    /\ teCall.trace.breaker = "allowed"
    /\ teCall.trace.limiter = "denied"
    /\ teCall.result.error = "Rate limited, wait " \o ToString(MaxWindow) \o ".0s"
    /\ stats.state = CLOSED

\* the breaker has refused a call after an upstream failure opened it
C12_BreakerDenied ==
    /\ teCall.trace.breaker = "denied"
    /\ stats.state = OPEN
    /\ stats.failure_count >= failure_threshold


\* C13: when the probe of a call reported has_changes=false and the cache
\* held a test result for the URL, the call returned that result tagged
\* from_cache=true, sent no GET and told the breaker nothing.
C13_CachedResultReturned ==
    (/\ teCall.trace.head = "answered"
     /\ ~teCall.probe_result.has_changes
     /\ teCall.trace.cached.exists)
    => /\ teCall.trace.hit
       /\ teCall.trace.get = "none"
       /\ teCall.result.from_cache
       /\ "from_cache" \in teCall.result.keys
       /\ teCall.result = [teCall.trace.cached EXCEPT
                             !.from_cache = TRUE,
                             !.keys = @ \cup {"from_cache"}]
       /\ endpoint_cache[teCall.endpoint].test_result = teCall.result

\* a call was answered with the result loaded from the cache file
C13_Witness ==
    /\ teCall.endpoint = "u1"
    /\ teCall.trace.head = "answered"
    /\ ~teCall.probe_result.has_changes
    /\ teCall.trace.cached = CachedResult
    /\ teCall.trace.get = "none"
    /\ teCall.result.from_cache

InvalidPayload(response) ==
    /\ response.status_code = 200
    /\ \/ ~response.body.json
       \/ \A now \in 0..MaxTime :
             Len(strict_validate_match_data(response.body.data, now).errors) > 0

\* C15 as stated: a 200 response whose payload has hard errors or is not
\* JSON gives a result that is not available, with validation_passed false,
\* and a breaker failure.
C15_InvalidPayloadUnavailable ==
    (teCall.trace.get = "answered" /\ InvalidPayload(teCall.response))
    => /\ ~teCall.result.available
       /\ ~teCall.result.validation_passed
       /\ teCall.trace.recorded = <<"failure">>

\* C15 amended: a 200 response whose payload has hard errors, or whose
\* decoding raises json.JSONDecodeError, gives a result with
\* validation_passed=false that is still available=true, and the breaker
\* records a success.
C15_InvalidPayloadAvailable ==
    (teCall.trace.get = "answered" /\ InvalidPayload(teCall.response))
    => /\ teCall.result.available
       /\ "validation_passed" \in teCall.result.keys
       /\ ~teCall.result.validation_passed
       /\ teCall.trace.recorded = <<"success">>
       /\ teCall.result.error = ""

\* a 200 response with one valid item and one with unparseable odds
C15_Witness ==
    /\ teCall.trace.get = "answered"
    /\ teCall.response.body = HardErrorBody
    /\ teCall.result.validation_errors = <<"odds format">>
    /\ teCall.result.contains_soccer
    /\ teCall.result.available
    /\ ~teCall.result.validation_passed
    /\ teCall.trace.recorded = <<"success">>


\* the filters of the validator, stated on the item: a dict whose sport
\* label names soccer or football, whose start time (if given) is a number
\* not in the past, whose three odds are present, numeric and above 1.0, and
\* whose two team names are not empty
Football(it) ==
    it.isdict /\ it.sportInfo.t = "str" /\ is_soccer(it.sportInfo.w)
StartOk(it, now) ==
    ~truthy(it.startTime) \/ (it.startTime.t = "num" /\ it.startTime.v >= now)
OddsOf(it) ==
    <<py_or(it.odds.k1, it.odds.home), py_or(it.odds.kX, it.odds.draw),
      py_or(it.odds.k2, it.odds.away)>>
OddsComplete(it) ==
    it.odds.t = "dict" /\ \A i \in 1..3 : truthy(OddsOf(it)[i])
OddsParse(it) == \A i \in 1..3 : OddsOf(it)[i].ok
FullyValid(it, now) ==
    /\ Football(it) /\ StartOk(it, now)
    /\ OddsComplete(it) /\ OddsParse(it)
    /\ \A i \in 1..3 : OddsOf(it)[i].v > 10
    /\ it.homeTeam # "" /\ it.awayTeam # ""

\* an item on which the loop body raises: its sport label is not a string
Raises(it) == it.isdict /\ it.sportInfo.t = "other"
FirstRaise(l) ==
    IF \E i \in 1..Len(l) : Raises(l[i])
    THEN CHOOSE i \in 1..Len(l) :
            Raises(l[i]) /\ \A j \in 1..(i - 1) : ~Raises(l[j])
    ELSE 0

\* the item sequence of the payload under validation
PayloadSeq == normalise(payload).items

\* C16 as stated: for every payload is_valid = (valid_matches > 0 and no hard
\* error); a summary hard error is appended whenever valid_matches = 0;
\* total_matches is the number of items of the normalised sequence and
\* valid_matches the number of items that pass every filter.
C16_VerdictCounts ==
    verdict.done
    => LET v == verdict.v
           l == PayloadSeq
       IN  /\ v.is_valid = (v.valid_matches > 0 /\ v.errors = <<>>)
           /\ v.valid_matches = 0 => v.errors # <<>>
           /\ (l # <<>> /\ v.valid_matches = 0)
              => v.errors[Len(v.errors)] = "no valid football match"
           /\ v.total_matches = Len(l)
           /\ v.valid_matches =
                 Cardinality({i \in 1..Len(l) : FullyValid(l[i], verdict.at)})

\* C16 amended: for every payload is_valid = (valid_matches > 0 and no hard
\* error), and valid_matches = 0 always comes with a hard error.  When no
\* item makes the loop raise, the summary hard error is appended whenever
\* valid_matches = 0, total_matches is the number of items and valid_matches
\* the number of items that pass every filter.  When an item makes the loop
\* raise, the verdict is invalid with valid_matches = 0, total_matches is the
\* number of items up to and including that item, and the error of the
\* except clause is appended instead of the summary.
C16_VerdictCountsUnlessRaised ==
    verdict.done
    => LET v == verdict.v
           l == PayloadSeq
           k == FirstRaise(l)
       IN  /\ v.is_valid = (v.valid_matches > 0 /\ v.errors = <<>>)
           /\ v.valid_matches = 0 => v.errors # <<>>
           /\ k = 0
              => /\ (l # <<>> /\ v.valid_matches = 0)
                    => v.errors[Len(v.errors)] = "no valid football match"
                 /\ v.total_matches = Len(l)
                 /\ v.valid_matches =
                       Cardinality({i \in 1..Len(l) :
                                       FullyValid(l[i], verdict.at)})
           /\ k > 0
              => /\ ~v.is_valid
                 /\ v.valid_matches = 0
                 /\ v.total_matches = k
                 /\ v.errors[Len(v.errors)] = "validation exception"

\* two items, both valid, one of them starting exactly now: both counted
C16_Witness ==
    /\ verdict.done
    /\ payload.t = "list"
    /\ Len(payload.l) = 2
    /\ payload.l[1] = ValidItem
    /\ payload.l[2].startTime = Num(verdict.at)
    /\ verdict.v.is_valid
    /\ verdict.v.valid_matches = 2
    /\ verdict.v.total_matches = 2

\* a valid item followed by one whose sport label is not a string
C16_RaisedWitness ==
    /\ verdict.done
    /\ payload.t = "list"
    /\ Len(payload.l) = 2
    /\ payload.l[1] = ValidItem
    /\ Raises(payload.l[2])
    /\ verdict.v.valid_matches = 0


\* the verdict of the validator on the item sequence l at time now
VerdictOn(l, now) ==
    IF l = <<>>
    THEN Verdict(FALSE, <<"no items">>, <<>>, 0, 0)
    ELSE strict_verdict(validate_loop(l, 1, now,
                                      Tally(<<>>, <<>>, 0, 0, FALSE)))

\* the payload is one of the three shapes that hold an item list
IsList(p) == p.t = "list"
IsDataItems(p) ==
    p.t = "dict" /\ p.data.t = "dict" /\ p.data.items.t = "list"
IsItems(p) ==
    p.t = "dict" /\ p.data.t = "absent" /\ p.items.t = "list"

\* C17 as stated: a top-level list, a {"data": {"items": [...]}} wrapper and
\* an {"items": [...]} wrapper are validated as their item list, any other
\* object as exactly one item (itself), any other value is invalid with a
\* hard error and zero counts, and an empty item sequence is invalid with a
\* hard error.
C17_ShapeNormalisation ==
    verdict.done
    => LET v == verdict.v
           p == payload
       IN  /\ IsList(p) => v = VerdictOn(p.l, verdict.at)
           /\ IsDataItems(p) => v = VerdictOn(p.data.items.l, verdict.at)
           /\ IsItems(p) => v = VerdictOn(p.items.l, verdict.at)
           /\ (p.t = "dict" /\ ~IsDataItems(p) /\ ~IsItems(p))
              => /\ v = VerdictOn(<<p.self>>, verdict.at)
                 /\ v.total_matches = 1
           /\ p.t = "other"
              => /\ ~v.is_valid /\ v.errors = <<"unsupported format">>
                 /\ v.valid_matches = 0 /\ v.total_matches = 0
           /\ \/ (IsList(p) /\ p.l = <<>>)
              \/ (IsDataItems(p) /\ p.data.items.l = <<>>)
              \/ (IsItems(p) /\ p.items.l = <<>>)
              => ~v.is_valid /\ v.errors = <<"no items">>

\* C17 amended: a top-level list is validated as its items.  An object with
\* a 'data' key is validated as the 'items' list of that value when it is an
\* object (as the empty sequence when it has no 'items' key or a null one), as
\* that value when it is a list, as the one-item sequence holding that value
\* when it is any other truthy value, and as the empty sequence when it is
\* falsy.  An object without a 'data' key but with an 'items' key is validated
\* as that list (as the empty sequence when it is null).  Only an object with
\* neither key is treated as exactly one item.  Any value that is neither a
\* list nor an object is invalid with a hard error and zero counts, and an
\* empty item sequence is invalid with a hard error and zero counts.
C17_ShapeNormalisationByKeys ==
    verdict.done
    => LET v == verdict.v
           p == payload
           now == verdict.at
           list_or_empty(iv) == IF iv.t = "list" THEN iv.l ELSE <<>>
       IN  /\ IsList(p) => v = VerdictOn(p.l, now)
           /\ (p.t = "dict" /\ p.data.t = "dict" /\ p.data.items.t # "num")
              => v = VerdictOn(list_or_empty(p.data.items), now)
           /\ (p.t = "dict" /\ p.data.t = "list")
              => v = VerdictOn(p.data.l, now)
           /\ (p.t = "dict" /\ p.data.t = "scalar")
              => v = VerdictOn(<<NonDict>>, now) /\ v.total_matches = 1
           /\ (p.t = "dict" /\ p.data.t = "null")
              => v = VerdictOn(<<>>, now)
           /\ (p.t = "dict" /\ p.data.t = "absent"
                 /\ p.items.t \in {"list", "null"})
              => v = VerdictOn(list_or_empty(p.items), now)
           /\ (p.t = "dict" /\ p.data.t = "absent" /\ p.items.t = "absent")
              => v = VerdictOn(<<p.self>>, now) /\ v.total_matches = 1
           /\ p.t = "other"
              => /\ ~v.is_valid /\ v.errors = <<"unsupported format">>
                 /\ v.valid_matches = 0 /\ v.total_matches = 0
           /\ (normalise(p).kind = "seq" /\ normalise(p).items = <<>>)
              => /\ ~v.is_valid /\ v.errors = <<"no items">>
                 /\ v.valid_matches = 0 /\ v.total_matches = 0

\* an {"items": [...]} wrapper around a valid item and a tennis item: two
\* items counted, one valid
C17_Witness ==
    /\ verdict.done
    /\ IsItems(payload)
    /\ payload.items.l = <<ValidItem, TennisItem>>
    /\ verdict.v.is_valid
    /\ verdict.v.total_matches = 2
    /\ verdict.v.valid_matches = 1

\* a {"data": [...]} wrapper around two valid items is not one item
C17_DataListWitness ==
    /\ verdict.done
    /\ payload.t = "dict" /\ payload.data.t = "list"
    /\ payload.data.l = <<ValidItem, ValidItem>>
    /\ verdict.v.total_matches = 2


\* an item that breaks a business rule and nothing else: wrong sport, a past
\* start time, missing or incomplete odds, odds not above 1.0, or an empty
\* team name
BusinessOnly(it, now) ==
    /\ it.isdict /\ it.sportInfo.t \in {"str", "absent"}
    /\ \/ ~is_soccer(it.sportInfo.w)
       \/ (it.startTime.t = "num" /\ truthy(it.startTime)
             /\ it.startTime.v < now)
       \/ /\ StartOk(it, now)
          /\ it.odds.t \in {"absent", "dict"}
          /\ \/ ~OddsComplete(it)
             \/ (OddsParse(it) /\ \E i \in 1..3 : OddsOf(it)[i].v <= 10)
             \/ (OddsParse(it) /\ (it.homeTeam = "" \/ it.awayTeam = ""))

\* a football item that reaches the odds conversion with a value float()
\* rejects
UnparseableOdds(it, now) ==
    Football(it) /\ StartOk(it, now) /\ OddsComplete(it) /\ ~OddsParse(it)

C18_WarningWitness ==
    /\ verdict.done
    /\ payload.t = "list" /\ Len(payload.l) = 2
    /\ payload.l[1] = ValidItem
    /\ payload.l[2].startTime = Num(verdict.at - 1)
    /\ OddsParse(payload.l[2])
    /\ verdict.v.warnings = <<"historical match">>
    /\ verdict.v.is_valid


(***************************************************************************)
(* Properties of check_and_update_endpoints (checked under SpecUpdate)     *)
(***************************************************************************)

\* the endpoints a config file holds
Persisted(file) == Loaded(file).endpoints.l

\* C19: check_and_update_endpoints returns True only if the changed
\* endpoint list was persisted: in the branch of an empty config and in the
\* update branch alike, a call whose save_config failed does not return True
C19_TrueOnlyIfPersisted ==
    cuCall.made /\ cuCall.ret =>
        /\ cuCall.saved = "ok"
        /\ Persisted(cuCall.after) # Persisted(cuCall.before)

\* a sequence in which no url occurs twice
NoRepeat(l) == \A i, j \in 1..Len(l) : l[i] = l[j] => i = j

\* C20: starting from an empty or duplicate-free config, whatever list the
\* discovery yields (a url may repeat in it), the endpoints sequence in the
\* config file never holds a url twice
C20_PersistedEndpointsUnique == NoRepeat(Persisted(fs_target))


\* whether url occurs in the list l
InList(url, l) == \E k \in 1..Len(l) : l[k] = url

\* C21: in the update branch a candidate of the discovery is appended to
\* working_endpoints only if the test_endpoint result the decision looks at
\* has validation_passed true, and only if the candidate is not yet in
\* working_endpoints
C21_CandidateKeptOnlyIfValidated ==
    [][(/\ cu.pc = "candidate_tested"
        /\ cu'.pc = "candidates"
        /\ cu'.working_endpoints # cu.working_endpoints)
       => /\ get_flag(teCall.result, "validation_passed")
          /\ ~InList(cu.new_endpoints[cu.i], cu.working_endpoints)]_vars


(***************************************************************************)
(* Items of other sports (checked under SpecVal)                           *)
(***************************************************************************)

\* a dict item whose sport label (the empty string when absent) names
\* neither soccer nor football
OtherSport(it) ==
    it.isdict /\ it.sportInfo.t \in {"str", "absent"} /\ ~is_soccer(it.sportInfo.w)

\* the number of items the loop has dealt with completely: all of them, or
\* those before the item on which it raised
Handled(l) == IF FirstRaise(l) = 0 THEN Len(l) ELSE FirstRaise(l) - 1

\* the hard errors the items added: all but the summary or exception entry
ItemErrors(v, l) ==
    Len(v.errors) - (IF FirstRaise(l) > 0 \/ v.valid_matches = 0 THEN 1 ELSE 0)

C23_WaitTime ==
    [][waitCall' # waitCall =>
         /\ requests' = requests
         /\ waitCall'.ret >= 0
         /\ requests = <<>> => waitCall'.ret = 0
         /\ requests # <<>> =>
               \E i \in 1..Len(requests) :
                  /\ \A j \in 1..Len(requests) : requests[i] <= requests[j]
                  /\ LET age == clock - requests[i]
                     IN  \/ waitCall'.ret = time_window - age
                         \/ time_window - age < 0 /\ waitCall'.ret = 0]_vars

\* a call made while the one recorded request has aged but not expired
C23_Witness ==
    /\ waitCall.made
    /\ waitCall.ret > 0
    /\ waitCall.ret < time_window


(***************************************************************************)
(* Order of the steps of test_endpoint (checked under SpecTest)            *)
(***************************************************************************)

\* the steps a call has taken so far are in the order breaker, limiter,
\* HEAD, GET
InOrder(trace) ==
    /\ trace.limiter # "none" => trace.breaker = "allowed"
    /\ trace.head # "none" =>
          trace.breaker = "allowed" /\ trace.limiter = "allowed"
    /\ trace.get # "none" => trace.head # "none"

\* C24: within one test_endpoint call the circuit breaker is asked first,
\* then the rate limiter, then the HEAD probe is sent, then the conditional
\* GET: the GET is never sent before the probe has returned, and neither is
\* sent before both admissions succeeded
C24_GatesProbeFetchOrder ==
    /\ [](InOrder(teCall.trace) /\ \A t \in Threads : InOrder(te[t].trace))
    /\ [][\A t \in Threads :
             /\ (te[t].trace.head = "none" /\ te'[t].trace.head # "none")
                => /\ te[t].trace.limiter = "allowed"
                   /\ te[t].trace.get = "none"
             /\ (te[t].trace.get = "none" /\ te'[t].trace.get # "none")
                => te[t].trace.head # "none"
             /\ (te[t].trace.limiter = "none" /\ te'[t].trace.limiter # "none")
                => te[t].trace.breaker = "allowed"]_vars

\* a call that passed both gates, was answered on HEAD and went on to the GET
C24_Witness ==
    /\ teCall.trace.breaker = "allowed"
    /\ teCall.trace.limiter = "allowed"
    /\ teCall.trace.head = "answered"
    /\ teCall.trace.get = "answered"


(***************************************************************************)
(* The probe's change detection (checked under SpecUpdate)                 *)
(***************************************************************************)

\* C25: after a test_endpoint call whose HEAD request was answered, a
\* following probe of the same url whose HEAD answer has the same
\* fingerprint reports has_changes = false
C25_IdenticalHeadUnchanged ==
    \A t \in Threads :
       (/\ teCall.trace.head = "answered"
        /\ te[t].trace.head = "answered"
        /\ te[t].endpoint = teCall.endpoint
        /\ te[t].probe_result.content_hash = teCall.probe_result.content_hash)
       => ~te[t].probe_result.has_changes


(***************************************************************************)
(* A 304 answer to the conditional GET (checked under SpecTest)            *)
(***************************************************************************)

\* C26: when the conditional GET is answered 304, validation_passed of the
\* result equals that of the test result cached for the url before the
\* call; it is true only if a payload fetched earlier passed the validator
C26_NotModifiedReusesVerdict ==
    (teCall.trace.get = "answered" /\ teCall.response.status_code = 304)
    => teCall.result.validation_passed
          = (teCall.trace.cached.exists
                /\ teCall.trace.cached.validation_passed)


(***************************************************************************)
(* The monitoring loop (C22 checked under SpecCycles, the others under     *)
(* SpecLoop)                                                               *)
(***************************************************************************)

\* C22: a failing cycle never ends the loop: after the last attempt of a
\* cycle has raised, the loop sleeps and then starts another cycle; the
\* loop ends only by KeyboardInterrupt
C22_FailingCycleContinues ==
    [][/\ (lp.pc # "ended" /\ lp'.pc = "ended")
          => lpHist'.ended_by = "KeyboardInterrupt"
       /\ lp.pc = "failed"
          => lp'.pc \in {"failed", "sleep", "extended_sleep", "ended"}
       /\ lp.pc \in {"sleep", "extended_sleep"}
          => lp'.pc \in {lp.pc, "cycle", "ended"}]_vars

\* a cycle has failed on all its attempts and the loop has slept and is in
\* the attempt of the next cycle
C22_Witness ==
    /\ lp.pc = "attempt"
    /\ lp.cycles >= 2
    /\ lpHist.streak >= 1

\* the breaker admits a call and the window of the limiter has room
Admissible ==
    /\ can_execute_ret(stats, clock)
    /\ HasRoom(Unexpired(requests, clock))

\* C27: every HEAD probe, of test_endpoint or of the probing phase of the
\* loop, follows an admission by the breaker and by the limiter: none is
\* sent while the breaker is Open within its recovery timeout or while the
\* window of the limiter is full
C27_EveryProbeAdmitted ==
    [][/\ lp'.probe_results > lp.probe_results => Admissible
       /\ \A t \in Threads :
             (te[t].trace.head = "none" /\ te'[t].trace.head # "none")
             => /\ te[t].trace.breaker = "allowed"
                /\ te[t].trace.limiter = "allowed"]_vars

\* C28: when _save_cache has returned at the end of a cycle, the cache file
\* holds the endpoint_cache and the content_hashes of the updater
C28_CacheFileHoldsCaches ==
    lp.pc = "saved"
    => /\ cache_file.exists
       /\ cache_file.ok
       /\ cache_file.endpoint_cache = endpoint_cache
       /\ cache_file.content_hashes = content_hashes

\* C29: the loop takes the extended wait exactly when five cycles in a row
\* have failed; a cycle that completes resets the count of failures, and
\* so does the extended wait
C29_ExtendedWaitAfterFiveInARow ==
    /\ lp.pc \in {"sleep", "extended_sleep"}
       => (lp.pc = "extended_sleep"
           <=> lpHist.streak >= max_consecutive_failures)
    /\ lp.pc \notin {"idle", "ended"}
       => lp.consecutive_failures = lpHist.streak

(***************************************************************************)
(* The breaker's counters (checked under SpecCB)                           *)
(***************************************************************************)

\* C35: record_success on a Closed breaker leaves failure_count as it is, so
\* that the failures recorded since creation (or since the breaker closed)
\* add up whatever successes lie between them, and the Closed breaker opens
\* with the record_failure that brings the count to failure_threshold
C35_SuccessKeepsFailureCount ==
    /\ [](/\ stats.state = CLOSED => stats.failure_count < failure_threshold
          /\ ~cbHist.entered => stats.failure_count = cbHist.fail)
    /\ [][stats.state = CLOSED =>
            /\ cbCall'.op = "record_success" /\ cbCall' # cbCall
               => /\ stats'.failure_count = stats.failure_count
                  /\ stats'.state = CLOSED
            /\ cbCall'.op = "record_failure" /\ cbCall' # cbCall
               => /\ stats'.failure_count = stats.failure_count + 1
                  /\ stats'.state = OPEN
                     <=> stats'.failure_count >= failure_threshold]_vars

\* a breaker never HalfOpen, opened by a failure that followed a success:
\* the failures that opened it were not in a row
C35_Witness ==
    /\ failure_threshold > 1
    /\ ~cbHist.entered
    /\ cbCall.op = "record_failure"
    /\ cbCall.state0 = CLOSED
    /\ cbCall.streak0 = 0
    /\ stats.state = OPEN
    /\ stats.last_success_time # None
    /\ stats.last_success_time <= stats.last_failure_time

\* C36: a record_failure on an Open breaker leaves it Open and sets
\* last_failure_time to the time of the call, and only record_failure sets
\* it; a record_success on an Open breaker leaves the state alone; entering
\* HalfOpen sets success_count to 0
C36_OpenBreakerRecords ==
    [][/\ stats.state = OPEN /\ cbCall' # cbCall /\ cbCall'.op = "record_failure"
          => stats'.state = OPEN /\ stats'.last_failure_time = clock
       /\ stats.state = OPEN /\ cbCall' # cbCall /\ cbCall'.op = "record_success"
          => /\ stats'.state = OPEN
             /\ stats'.last_failure_time = stats.last_failure_time
       /\ stats'.last_failure_time # stats.last_failure_time
          => cbCall'.op = "record_failure" /\ stats'.last_failure_time = clock
       /\ stats.state = OPEN /\ stats'.state = HALF_OPEN
          => /\ stats'.success_count = 0
             /\ clock - stats.last_failure_time > recovery_timeout]_vars

\* a failure recorded on an Open breaker later than the failure that opened
\* it, after a success had been counted on the Open breaker
C36_Witness ==
    /\ cbCall.op = "record_failure"
    /\ cbCall.state0 = OPEN
    /\ cbCall.lft0 # None
    /\ cbCall.lft0 < stats.last_failure_time
    /\ stats.state = OPEN
    /\ stats.success_count > 0

(***************************************************************************)
(* What a test_endpoint call tells the breaker (checked under SpecTest)    *)
(***************************************************************************)

\* the breaker methods a call has invoked fit the steps it has taken: one
\* once the conditional GET is behind it, none if the call was denied at a
\* gate or answered from the cached result
OneRecord(call) ==
    /\ call.trace.get # "none" => Len(call.trace.recorded) = 1
    /\ call.trace.get = "none" => call.trace.recorded = <<>>
    /\ (call.trace.breaker = "denied" \/ call.trace.limiter = "denied"
        \/ call.trace.hit) => call.trace.get = "none"
    /\ call.trace.breaker = "denied" => call.trace.limiter = "none"

\* C37: a test_endpoint call invokes exactly one of record_success and
\* record_failure if it passed both gates and was not answered from the
\* cached result, and neither otherwise: total_requests grows by one
\* exactly in the step in which a call that has sent its conditional GET
\* records the outcome; a call denied by the breaker leaves the window of
\* the limiter alone
C37_OneBreakerRecordPerFetch ==
    /\ [](/\ OneRecord(teCall)
          /\ \A t \in Threads : te_pc[t] = "done" => OneRecord(te[t]))
    /\ [][/\ \A t \in Threads :
               (te_pc'[t] # "idle"
                /\ te'[t].trace.recorded # te[t].trace.recorded)
               => /\ te[t].trace.get # "none"
                  /\ te[t].trace.recorded = <<>>
                  /\ stats'.total_requests = stats.total_requests + 1
          /\ stats'.total_requests # stats.total_requests
             => \E t \in Threads :
                   Len(te'[t].trace.recorded) = Len(te[t].trace.recorded) + 1
          /\ \A t \in Threads :
               (te[t].trace.breaker = "none"
                /\ te'[t].trace.breaker = "denied")
               => requests' = requests]_vars

\* a second call, denied by the breaker that the failed first call opened:
\* one request counted, one slot of the window taken
C37_Witness ==
    /\ tests = 2
    /\ teCall.trace.breaker = "denied"
    /\ teCall.trace.recorded = <<>>
    /\ stats.total_requests = 1
    /\ Len(requests) = 1

(***************************************************************************)
(* Entries of endpoint_cache under concurrent calls (checked under         *)
(* SpecRace)                                                               *)
(***************************************************************************)

\* the fields of an entry that have been assigned
Assigned(entry) ==
    {f \in {"content_hash", "last_probe", "etag", "last_fetch"} :
        entry[f] # "None"}
    \cup (IF entry.test_result.exists THEN {"test_result"} ELSE {})

\* C31: with test_endpoint running in several threads for the same url, no
\* field that a thread has written to the entry of the url is lost: a field
\* that is assigned stays assigned
C31_NoEntryFieldLost ==
    [][\A u \in Urls :
          Assigned(endpoint_cache[u]) \subseteq Assigned(endpoint_cache'[u])]_vars

(***************************************************************************)
(* Concurrent updates of the config (checked under SpecRMW)                *)
(***************************************************************************)

\* C32: concurrent callers do not interleave their load-modify-save
\* sequences: a caller that replaces the config file replaces the config it
\* loaded, so that the callers' updates follow one another as in a serial
\* order and none is overwritten unseen
C32_ReadModifyWriteSerial ==
    [][\A t \in Threads :
          (st_pc[t] = "checking" /\ st_pc'[t] = "returned"
           /\ fs_target' # fs_target)
          => Loaded(fs_target) = config[t]]_vars

(***************************************************************************)
(* The retry wrapper of the loop (checked under SpecCycles)                *)
(***************************************************************************)

\* C33: in a cycle _retry_with_backoff calls check_and_update_endpoints at
\* most max_retries times: an attempt that returns ends the retries with
\* its result, the attempt numbered max_retries - 1 that raises is not
\* followed by a sleep but raises to the loop, and every earlier attempt
\* that raises is followed by one sleep and the next attempt
C33_AtMostMaxRetries ==
    /\ [](/\ lp.attempt < max_retries
          /\ lp.pc = "backoff" => lp.attempt < max_retries - 1)
    /\ [][/\ (lp.pc = "attempt" /\ lp'.pc = "backoff")
             => lp.attempt < max_retries - 1
          /\ (lp.pc = "attempt" /\ lp'.pc = "failed")
             => lp.attempt = max_retries - 1
          /\ lp.pc = "attempt"
             => lp'.pc \in {"attempt", "load", "backoff", "failed", "ended"}
          /\ lp.pc = "backoff"
             => /\ lp'.pc \in {"backoff", "attempt", "ended"}
                /\ lp'.pc = "attempt" => lp'.attempt = lp.attempt + 1
          /\ (lp.pc \in {"load", "failed"} /\ lp'.pc # "ended")
             => lp'.attempt = lp.attempt]_vars

\* the last of the max_retries attempts has raised, in a cycle that follows
\* a completed one
C33_Witness ==
    /\ lp.pc = "failed"
    /\ lp.attempt = max_retries - 1
    /\ lp.cycles >= 2
    /\ lpHist.streak = 0

(***************************************************************************)
(* The retry delays (checked under SpecBackoff and SpecRetry)              *)
(***************************************************************************)
\* max_delay=60.0, the default of RetryConfig.__init__
max_delay == 60000

\* the exponential value base_delay * 2^(n-1) capped at max_delay
CappedExponential(base_delay, n, cap) ==
    IF base_delay * 2 ^ (n - 1) < cap THEN base_delay * 2 ^ (n - 1) ELSE cap

CalculateDelayBounded ==
    er.pc = "sleep" =>
        LET capped == CappedExponential(er.current.base_delay, er.attempt,
                                        er.current.max_delay)
        IN  /\ er.delay <= er.current.max_delay
            /\ 2 * er.delay >= capped
            /\ er.delay <= capped

\* the delay of _retry_with_backoff is the exponential value itself
BackoffDelayExact ==
    rw.pc = "sleep" => rw.delay = rw.base_delay * 2 ^ rw.retries

(***************************************************************************)
(* execute_with_retry without a retry_config (checked under SpecRetry)     *)
(***************************************************************************)
\* the call had no retry_config, every attempt raised an exception of the
\* error type T, and the last exception has been raised again
AlwaysRaised(T) ==
    /\ er.pc = "raised"
    /\ er.retry_config = <<>>
    /\ er.error_types = {T}

\* the smaller of the default max_attempts and that of the error type
MinAttempts(T) ==
    IF get_retry_config(T).max_attempts < default_retry_config.max_attempts
        THEN get_retry_config(T).max_attempts
        ELSE default_retry_config.max_attempts

\* the number of attempts is the minimum of the two max_attempts
AttemptsAreMinimum ==
    \A T \in er.error_types : AlwaysRaised(T) => er.attempt = MinAttempts(T)

\* C40: execute_with_retry called without a retry_config for a function that
\* always raises makes min(default max_attempts, max_attempts of the
\* classified error type) attempts, and raises the last exception again
\* with no sleep after the last attempt, i.e. one sleep between attempts
C40_MinAttemptsNoSleepAfterLast ==
    \A T \in er.error_types :
        AlwaysRaised(T) =>
            /\ er.attempt = MinAttempts(T)
            /\ er.sleeps = er.attempt - 1

(***************************************************************************)
(* A check whose tests are refused (checked under SpecDenied)              *)
(***************************************************************************)
\* the call has returned; the config had endpoints, the test of each of
\* them was refused by the breaker or the limiter, and no candidate of the
\* discovery was added to working_endpoints
AllDenied ==
    /\ cuCall.made
    /\ cuCall.current # <<>>
    /\ cuCall.denied = cuCall.current
    /\ cuCall.working = <<>>

\* the config file holds an empty endpoints list
EmptyEndpoints(file) == file # NoFile /\ Loaded(file).endpoints.l = <<>>

\* C38 as stated: when every configured endpoint is denied and the discovery
\* yields no validated candidate, the non-empty config is overwritten with an
\* empty endpoints list and the call returns true
C38_DeniedOverwritesAndReturnsTrue ==
    AllDenied => cuCall.ret /\ EmptyEndpoints(cuCall.after)

\* C38: an endpoint whose test is denied is a failed endpoint; when every
\* configured endpoint is denied and the discovery yields no validated
\* candidate, save_config is called with an empty endpoints list: if it
\* succeeds the config is overwritten and the call returns true, if it fails
\* the file stays as it was and the call returns false
C38_DeniedIsFailed ==
    /\ \A k \in 1..Len(cu.denied) :
          \E j \in 1..Len(cu.failed_endpoints) :
             cu.failed_endpoints[j] = cu.denied[k]
    /\ AllDenied =>
          /\ cuCall.branch = "update"
          /\ cuCall.saved \in {"ok", "failed"}
          /\ cuCall.saved = "ok" => cuCall.ret /\ EmptyEndpoints(cuCall.after)
          /\ cuCall.saved = "failed" =>
                ~cuCall.ret /\ cuCall.after = cuCall.before

\* every configured endpoint was denied and the config now on disk has no
\* endpoints
C38_Witness ==
    /\ AllDenied
    /\ cuCall.ret
    /\ Len(cuCall.current) = 2
    /\ EmptyEndpoints(fs_target)

(***************************************************************************)
(* The returned dict on every path of the validator (checked under SpecVal)*)
(***************************************************************************)
\* the hard errors that items added: the entries of errors other than the
\* summary entries of the early returns, of the end and of the except clause
PerItemErrors(v) ==
    Cardinality({k \in 1..Len(v.errors) :
                    v.errors[k] \in {"invalid match time", "odds format"}})

\* C39: on every return path of the validator is_valid is true if and only
\* if the returned list of hard errors is empty, 0 <= valid_matches <=
\* total_matches, and the valid matches, the warnings and the per-item hard
\* errors together are at most one per counted item
C39_VerdictConsistent ==
    verdict.done
    => LET v == verdict.v
       IN  /\ v.is_valid <=> v.errors = <<>>
           /\ 0 <= v.valid_matches
           /\ v.valid_matches <= v.total_matches
           /\ v.valid_matches + Len(v.warnings) + PerItemErrors(v)
                 <= v.total_matches

\* the except clause returned after an item that added a warning
C39_Witness ==
    /\ verdict.done
    /\ ~verdict.v.is_valid
    /\ verdict.v.total_matches = 2
    /\ Len(verdict.v.warnings) = 1
    /\ verdict.v.errors = <<"validation exception">>

====
